---- MODULE Spec2Model ----
(***************************************************************************)
(* Model of the stock-support helper (support_handler.stock_handler) and   *)
(* of the two front ends that call it (stock_gui.py, stock_web_gui.py).    *)
(*                                                                         *)
(* Text is modelled as a sequence of one-character strings, so that the    *)
(* string operations of the code (splitlines, strip, startswith, split)    *)
(* are computed character by character, as Python computes them.          *)
(***************************************************************************)
EXTENDS Integers, Sequences, FiniteSets, TLC

VARIABLES
    \* --- stock_recomend.get_all_data -> stock_handler.get_all_stock_symbols
    network,     \* what the GET of the symbol list URL meets: the answer it will get
    response,    \* local `response` of get_all_stock_symbols (None before the GET)
    lines,       \* local `lines` of get_all_stock_symbols (None until line 15 runs)
    stock_list,  \* what get_all_data returned (None when nothing was returned)
    raised,      \* the exception the last get_all_data call let escape (None if none)
    \* --- stock_handler.get_all_stock, one activation per calling thread
    dir0,        \* the working directory as it was when the run started
    files,       \* the working directory: file name -> content
    disk,        \* what the last df.to_excel met: "ok", or how the write failed
    pc,          \* per thread: position in get_all_stock ("idle" outside a call)
    symbols,     \* per thread: local `symbols`
    filename,    \* per thread: local `filename`
    counter,     \* per thread: local `counter`
    before,      \* the directory as it was when the most recent call was entered
    log,         \* outcomes of the completed calls, in order: [ret, err]
    \* --- the front ends around stock_handler.get_company_info
    frontend,    \* the program that runs: "desktop", "web" or "console"
    provider,    \* what the last yfinance lookup met (None before the first)
    symbol_var,  \* desktop: text of the symbol entry
    analyze_btn, \* desktop: state of the analyze button
    workers,     \* desktop: worker threads that have not finished their fetch
    started,     \* desktop: number of worker threads started
    after_queue, \* desktop: callbacks scheduled with root.after, oldest first
    widgets,     \* desktop: what the display widgets show
    dialogs,     \* desktop: message boxes shown, in order
    web_request, \* web: the last request to /analyze/ (None before the first)
    web_response, \* web: the JSON answer to it
    page,        \* web: what the elements of the page show
    stdout,      \* console: what the last print_stock_info printed, and its exception
    \* --- the outside world
    invoked,     \* the calls of the core operations entered so far, in order
    outbound,    \* the requests sent to the outside so far, in order
    market,      \* the outcomes a lookup at the provider can meet in this run
    \* --- a formatter of stock_gui.py called on its own
    fmt_value,   \* the argument
    fmt_result   \* the formatter called and what it returned (None before the call)

parseVars == <<response, lines, stock_list, raised>>

exportVars == <<dir0, files, disk, pc, symbols, filename, counter, before, log>>

\* everything but the state of the desktop window / of the web endpoint
notDesktopVars == <<frontend, web_request, web_response, page, stdout, market,
                    fmt_value, fmt_result, network,
                    response, lines, stock_list, raised,
                    dir0, files, disk, pc, symbols, filename, counter, before, log>>

notWebVars == <<frontend, symbol_var, analyze_btn, workers, started, after_queue,
                widgets, dialogs, page, stdout, market, fmt_value, fmt_result,
                network, response, lines, stock_list, raised,
                dir0, files, disk, pc, symbols, filename, counter, before, log>>

frontVars == <<frontend, provider, symbol_var, analyze_btn, workers, started,
               after_queue, widgets, dialogs, web_request, web_response, page,
               stdout, market, fmt_value, fmt_result>>

vars == <<network, response, lines, stock_list, raised,
          dir0, files, disk, pc, symbols, filename, counter, before, log,
          frontend, provider, symbol_var, analyze_btn, workers, started,
          after_queue, widgets, dialogs, web_request, web_response, page,
          stdout, invoked, outbound, market, fmt_value, fmt_result>>

\* An optional value (a Python name that is unbound or None, or holds x)
None == <<>>
Some(x) == <<x>>

(***************************************************************************)
(* Bounds of the model.                                                    *)
(***************************************************************************)
MaxLines == 2     \* lines in a downloaded symbol listing
MaxCalls == 3     \* calls of get_all_stock in one run
MaxExisting == 2  \* largest numeric suffix among the files present at the start
MaxAnalyses == 2  \* worker threads started by the desktop front end in one run
MaxDialogs == 2   \* rejected (empty) symbol entries in one run
MantissaLen == 3  \* significant digits of the numbers given to a formatter
MaxShift == 12    \* the numbers given to a formatter go up to 10^(MaxShift - 2)

(***************************************************************************)
(* Characters.                                                             *)
(***************************************************************************)
SP  == " "
TAB == "\t"
LF  == "\n"
CR  == "\r"
COLON == ":"

\* str.isspace() characters that occur in the model's alphabet
Whitespace == {SP, TAB, LF, CR}

\* the line boundaries str.splitlines() recognises, within the model's alphabet
LineBreakChars == {LF, CR}

(***************************************************************************)
(* Python string operations, computed as CPython computes them.            *)
(***************************************************************************)

\* str.splitlines(): scan left to right; "\r\n" is one boundary; a final
\* boundary does not open a further (empty) line.
RECURSIVE SplitLinesFrom(_, _, _, _)
SplitLinesFrom(s, i, cur, acc) ==
    IF i > Len(s)
    THEN IF cur # <<>> THEN Append(acc, cur) ELSE acc
    ELSE IF s[i] = CR /\ i < Len(s) /\ s[i + 1] = LF
         THEN SplitLinesFrom(s, i + 2, <<>>, Append(acc, cur))
         ELSE IF s[i] \in LineBreakChars
              THEN SplitLinesFrom(s, i + 1, <<>>, Append(acc, cur))
              ELSE SplitLinesFrom(s, i + 1, Append(cur, s[i]), acc)

splitlines(s) == SplitLinesFrom(s, 1, <<>>, <<>>)

\* str.strip(): drop leading, then trailing, whitespace
RECURSIVE lstrip(_)
lstrip(s) == IF s # <<>> /\ Head(s) \in Whitespace THEN lstrip(Tail(s)) ELSE s

RECURSIVE rstrip(_)
rstrip(s) ==
    IF s # <<>> /\ s[Len(s)] \in Whitespace
    THEN rstrip(SubSeq(s, 1, Len(s) - 1))
    ELSE s

strip(s) == rstrip(lstrip(s))

\* str.startswith(prefix)
startswith(s, prefix) ==
    /\ Len(s) >= Len(prefix)
    /\ SubSeq(s, 1, Len(prefix)) = prefix

\* str.split() with no argument: split on runs of whitespace, no empty tokens
RECURSIVE SplitFrom(_, _, _, _)
SplitFrom(s, i, cur, acc) ==
    IF i > Len(s)
    THEN IF cur # <<>> THEN Append(acc, cur) ELSE acc
    ELSE IF s[i] \in Whitespace
         THEN SplitFrom(s, i + 1, <<>>, IF cur # <<>> THEN Append(acc, cur) ELSE acc)
         ELSE SplitFrom(s, i + 1, Append(cur, s[i]), acc)

split(s) == SplitFrom(s, 1, <<>>, <<>>)

\* s.split(':')[0]: the part of s before its first colon (all of s if none)
RECURSIVE BeforeColon(_)
BeforeColon(s) ==
    IF s = <<>> \/ Head(s) = COLON
    THEN <<>>
    ELSE <<Head(s)>> \o BeforeColon(Tail(s))

\* a variant that keeps the annotation
split_colon_0_keep(s) == s

split_colon_0(s) == BeforeColon(s)

\* the two prefixes of line 21
AsOf == <<"A", "s", " ", "o", "f">>
SymbolHdr == <<"S", "y", "m", "b", "o", "l">>

(***************************************************************************)
(* The HTTP exchange of line 13-14.  An answer of the network is either a  *)
(* transport failure (requests.get raises) or a response with a status     *)
(* code and a body.                                                        *)
(***************************************************************************)
TransportFailure == [transport_ok |-> FALSE, status_code |-> 0, text |-> <<>>]

HttpAnswer(code, body) == [transport_ok |-> TRUE, status_code |-> code, text |-> body]

\* a variant that never raises
raise_for_status_never(resp) == FALSE

\* Response.raise_for_status(): raises HTTPError for 4xx and 5xx status codes
raise_for_status(resp) == 400 <= resp.status_code /\ resp.status_code < 600

\* a variant of the loop that skips a symbol already collected
RECURSIVE CollectSymbolsDedup(_, _)
CollectSymbolsDedup(ls, collected) ==
    IF ls = <<>>
    THEN collected
    ELSE LET line == strip(Head(ls))
         IN IF line = <<>> \/ startswith(line, AsOf) \/ startswith(line, SymbolHdr)
            THEN CollectSymbolsDedup(Tail(ls), collected)
            ELSE LET parts == split(line)
                 IN IF parts # <<>> /\ \A i \in 1..Len(collected) : collected[i] # parts[1]
                    THEN CollectSymbolsDedup(Tail(ls), Append(collected, parts[1]))
                    ELSE CollectSymbolsDedup(Tail(ls), collected)

\* lines 19-25: the loop over the lines, appending the first word of each
\* line that is kept
RECURSIVE CollectSymbols(_, _)
CollectSymbols(ls, collected) ==
    IF ls = <<>>
    THEN collected
    ELSE LET line == strip(Head(ls))
         IN IF line = <<>> \/ startswith(line, AsOf) \/ startswith(line, SymbolHdr)
            THEN CollectSymbols(Tail(ls), collected)
            ELSE LET parts == split(line)
                 IN IF parts # <<>>
                    THEN CollectSymbols(Tail(ls), Append(collected, parts[1]))
                    ELSE CollectSymbols(Tail(ls), collected)

\* line 28: cleaned_symbols = [s.split(':')[0] for s in collected]
cleaned_symbols(collected) == [i \in 1..Len(collected) |-> split_colon_0(collected[i])]

\* a variant of the fetch that swallows every failure and yields no symbols
get_all_stock_symbols_swallow(answer) ==
    IF ~answer.transport_ok \/ raise_for_status(answer)
    THEN [raised |-> None, response |-> None, lines |-> None, value |-> Some(<<>>)]
    ELSE LET ls == splitlines(answer.text)
         IN [raised |-> None, response |-> Some(answer), lines |-> Some(ls),
             value |-> Some(cleaned_symbols(CollectSymbols(ls, <<>>)))]

\* stock_handler.get_all_stock_symbols over one answer of the network: the
\* exception it lets escape (None if it returns), its locals and its value
get_all_stock_symbols(answer) ==
    IF ~answer.transport_ok
    THEN [raised |-> Some("ConnectionError"), response |-> None, lines |-> None,
          value |-> None]
    ELSE IF raise_for_status(answer)
         THEN [raised |-> Some("HTTPError"), response |-> Some(answer),
               lines |-> None, value |-> None]
         ELSE LET ls == splitlines(answer.text)
              IN [raised |-> None, response |-> Some(answer), lines |-> Some(ls),
                  value |-> Some(cleaned_symbols(CollectSymbols(ls, <<>>)))]

\* a call of a core operation, with the symbol it is given (none for the
\* operations on the symbol list)
Invocation(op, symbol) == [op |-> op, symbol |-> symbol]

\* the request line 13 sends
GetRequest == [op |-> "GET", symbol |-> <<>>]

\* a variant that sends the request again after a failure
get_all_stock_symbols_requests_retry(answer) ==
    IF ~answer.transport_ok \/ raise_for_status(answer)
    THEN <<GetRequest, GetRequest>>
    ELSE <<GetRequest>>

\* the requests one call of get_all_stock_symbols sends: the requests.get of
\* line 13, outside any loop, whatever its answer
get_all_stock_symbols_requests(answer) == <<GetRequest>>

(***************************************************************************)
(* Inputs: symbol listings built from sample lines, joined by each of the  *)
(* line terminators, with and without a final terminator.                  *)
(***************************************************************************)
LineAsOf    == <<"A", "s", " ", "o", "f", " ", "2", "0", "2", "4", "-", "0", "1", "-", "0", "1">>
LineHeader  == <<"S", "y", "m", "b", "o", "l", " ", "N", "a", "m", "e">>
LineABC     == <<"A", "B", "C", ":", "U", "S", " ", " ", "S", "o", "m", "e", " ", "C", "o">>
LineBlank   == <<>>
LineSpaces  == <<" ", TAB>>
LineColon1  == <<":", "U", "S", " ", "F", "o", "o">>
LineTabbed  == <<" ", "X", "Y", ".", "T", "O", TAB, "Z", ":", "Q">>
LineAs      == <<"A", "s", "o", "f", ":", "A", ":", "B">>
LineIndentH == <<" ", "S", "y", "m", "b", "o", "l", "s", ":", "U", "S">>

LineSamples ==
    {LineAsOf, LineHeader, LineABC, LineBlank, LineSpaces, LineColon1,
     LineTabbed, LineAs, LineIndentH}

LineTerminators == {<<LF>>, <<CR, LF>>, <<CR>>}

RECURSIVE JoinLines(_, _)
JoinLines(ls, term) ==
    IF ls = <<>> THEN <<>>
    ELSE IF Len(ls) = 1 THEN Head(ls)
    ELSE Head(ls) \o term \o JoinLines(Tail(ls), term)

TextsUpTo(n) ==
    { JoinLines(ls, term) \o (IF final THEN term ELSE <<>>) :
        ls \in UNION {[1..k -> LineSamples] : k \in 0..n},
        term \in LineTerminators, final \in BOOLEAN }

\* the listing of the specification's example
ExampleText == JoinLines(<<LineAsOf, LineHeader, LineABC>>, <<LF>>)

Texts == TextsUpTo(MaxLines) \cup {ExampleText}

OkStatuses == {200}
OtherStatuses == {204, 304, 404, 503}

Answers ==
    {TransportFailure}
    \cup {HttpAnswer(200, t) : t \in Texts}
    \cup {HttpAnswer(c, t) : c \in OtherStatuses, t \in TextsUpTo(1)}

(***************************************************************************)
(* stock_recomend.get_all_data: one call of get_all_stock_symbols.         *)
(***************************************************************************)
get_all_data ==
    LET out == get_all_stock_symbols(network)
    IN /\ Len(invoked) < MaxCalls
       /\ invoked' = Append(invoked, Invocation("get_all_stock_symbols", <<>>))
       /\ outbound' = outbound \o get_all_stock_symbols_requests(network)
       /\ response' = out.response
       /\ lines' = out.lines
       /\ stock_list' = out.value
       /\ raised' = out.raised
       /\ UNCHANGED <<network, exportVars, frontVars>>

(***************************************************************************)
(* Data of the front ends: company info records, the provider, widgets.    *)
(***************************************************************************)

(***************************************************************************)
(* Numbers.  A number is kept as its decimal digits: a sign, the digits of *)
(* the integer part (no leading zero; none for 0) and the digits of the    *)
(* fraction.  The scalings of the formatters are by powers of ten, so they *)
(* move the decimal point; the rendering with two decimals rounds on the   *)
(* digits.  A value exactly half way between two renderings is rendered as *)
(* the binary floating point value nearest to it falls, below or above:    *)
(* `half` is that outcome ("down" or "up").                                *)
(***************************************************************************)
Decimal(neg, int, frac) == [neg |-> neg, int |-> int, frac |-> frac]

Zero == Decimal(FALSE, <<>>, <<>>)

RECURSIVE StripZeros(_)
StripZeros(ds) ==
    IF ds # <<>> /\ Head(ds) = 0 THEN StripZeros(Tail(ds)) ELSE ds

Zeros(n) == [i \in 1..n |-> 0]

AllZero(ds) == \A i \in 1..Len(ds) : ds[i] = 0

\* a variant with > in place of >=
ge_pow10_exclusive(d, k) ==
    /\ ~d.neg
    /\ \/ Len(d.int) > k + 1
       \/ Len(d.int) = k + 1 /\ ~(d.int = <<1>> \o Zeros(k) /\ AllZero(d.frac))

\* value >= 10^k, as in `value >= 1_000_000_000`
ge_pow10(d, k) == ~d.neg /\ Len(d.int) > k

\* value / 10^k
div_pow10(d, k) ==
    LET padded == Zeros(k) \o d.int
        cut == Len(padded) - k
    IN Decimal(d.neg, StripZeros(SubSeq(padded, 1, cut)),
               SubSeq(padded, cut + 1, Len(padded)) \o d.frac)

\* value * 100
mul_100(d) ==
    LET padded == d.frac \o Zeros(2)
    IN Decimal(d.neg, StripZeros(d.int \o SubSeq(padded, 1, 2)),
               SubSeq(padded, 3, Len(padded)))

\* digits + 1
RECURSIVE Increment(_)
Increment(ds) ==
    IF ds = <<>> THEN <<1>>
    ELSE IF ds[Len(ds)] < 9
         THEN SubSeq(ds, 1, Len(ds) - 1) \o <<ds[Len(ds)] + 1>>
         ELSE Increment(SubSeq(ds, 1, Len(ds) - 1)) \o <<0>>

\* the value rounded to two decimals, as the format specifier .2f rounds it
fixed2(d, half) ==
    LET padded == d.frac \o Zeros(2)
        keep   == SubSeq(padded, 1, 2)
        rest   == SubSeq(padded, 3, Len(padded))
        up     == /\ rest # <<>>
                  /\ \/ rest[1] > 5
                     \/ rest[1] = 5 /\ ~AllZero(Tail(rest))
                     \/ rest[1] = 5 /\ AllZero(Tail(rest)) /\ half = "up"
        all    == IF up THEN Increment(d.int \o keep) ELSE d.int \o keep
    IN Decimal(d.neg, StripZeros(SubSeq(all, 1, Len(all) - 2)),
               SubSeq(all, Len(all) - 1, Len(all)))

DigitChars == <<"0", "1", "2", "3", "4", "5", "6", "7", "8", "9">>

Chars(ds) == [i \in 1..Len(ds) |-> DigitChars[ds[i] + 1]]

\* the digits of an integer part with a comma before every group of three
RECURSIVE Grouped(_)
Grouped(ds) ==
    IF Len(ds) <= 3 THEN Chars(ds)
    ELSE Grouped(SubSeq(ds, 1, Len(ds) - 3)) \o <<",">>
             \o Chars(SubSeq(ds, Len(ds) - 2, Len(ds)))

Sign(d) == IF d.neg THEN <<"-">> ELSE <<>>

IntDigits(d) == IF d.int = <<>> THEN <<0>> ELSE d.int

\* f"{value:.2f}"
format_f2(d, half) ==
    LET r == fixed2(d, half)
    IN Sign(r) \o Chars(IntDigits(r)) \o <<".">> \o Chars(r.frac)

\* f"{value:,.2f}"
format_cf2(d, half) ==
    LET r == fixed2(d, half)
    IN Sign(r) \o Grouped(IntDigits(r)) \o <<".">> \o Chars(r.frac)

\* f"{value:,}"
format_c(d) ==
    Sign(d) \o Grouped(IntDigits(d))
        \o (IF d.frac = <<>> THEN <<>> ELSE <<".">> \o Chars(d.frac))

\* str(value)
py_str(d) ==
    Sign(d) \o Chars(IntDigits(d))
        \o (IF d.frac = <<>> THEN <<>> ELSE <<".">> \o Chars(d.frac))

\* the characters as one string
RECURSIVE Flatten(_)
Flatten(cs) == IF cs = <<>> THEN "" ELSE Head(cs) \o Flatten(Tail(cs))

\* the value info.get(key) finds: the key is missing, holds None, a string,
\* a number, or a mapping
Absent == [kind |-> "absent", s |-> "", n |-> Zero]
PyNone == [kind |-> "none", s |-> "", n |-> Zero]
Str(x) == [kind |-> "str", s |-> x, n |-> Zero]
Num(d) == [kind |-> "num", s |-> "", n |-> d]
Mapping == [kind |-> "dict", s |-> "", n |-> Zero]

Whole(ds) == Decimal(FALSE, ds, <<>>)

NA == <<"N", "/", "A">>

(***************************************************************************)
(* The formatters of stock_gui.py.  Each is its try block, which can raise *)
(* on a value that is not a number, inside the guard for None and the      *)
(* except clause.  The result is [raised, text].                           *)
(***************************************************************************)
Returns(text) == [raised |-> FALSE, text |-> text]
Raises == [raised |-> TRUE, text |-> <<>>]

\* lines 499-509: the try block of _format_number
format_number_try(v, half) ==
    IF v.kind # "num" THEN Raises
    ELSE IF ge_pow10(v.n, 9)
         THEN Returns(<<"$">> \o format_f2(div_pow10(v.n, 9), half) \o <<"B">>)
    ELSE IF ge_pow10(v.n, 6)
         THEN Returns(<<"$">> \o format_f2(div_pow10(v.n, 6), half) \o <<"M">>)
    ELSE IF ge_pow10(v.n, 3)
         THEN Returns(<<"$">> \o format_f2(div_pow10(v.n, 3), half) \o <<"K">>)
    ELSE Returns(<<"$">> \o format_cf2(v.n, half))

\* a variant without the except clause
format_number_no_except(v, half) ==
    IF v.kind = "none" THEN Returns(NA) ELSE format_number_try(v, half)

\* _format_number
format_number(v, half) ==
    IF v.kind = "none" THEN Returns(NA)
    ELSE LET r == format_number_try(v, half)
         IN IF r.raised THEN Returns(NA) ELSE r

\* info.get(key)
info_get(v) == IF v.kind = "absent" THEN PyNone ELSE v

MarketCapCaption == <<"M", "a", "r", "k", "e", "t", " ", "C", "a", "p", ":", " ">>

\* a variant of the caller that puts the currency symbol before the text
market_cap_text_prefixed(v, half) ==
    MarketCapCaption \o <<"$">> \o format_number(info_get(v), half).text

\* line 449: f"Market Cap: {self._format_number(info.get('marketCap'))}" (the
\* labels of revenue, gross profit, net income and total debt are built alike)
market_cap_text(v, half) == MarketCapCaption \o format_number(info_get(v), half).text

\* line 526: the try block of _format_price
format_price_try(v, half) ==
    IF v.kind # "num" THEN Raises ELSE Returns(format_f2(v.n, half))

\* _format_price
format_price(v, half) ==
    IF v.kind = "none" THEN Returns(NA)
    ELSE LET r == format_price_try(v, half)
         IN IF r.raised THEN Returns(NA) ELSE r

\* line 543: the try block of _format_ratio
format_ratio_try(v, half) ==
    IF v.kind # "num" THEN Raises ELSE Returns(format_f2(v.n, half))

\* a variant of _format_ratio that renders one decimal
format_ratio_one_decimal(v, half) ==
    IF v.kind # "num" THEN Returns(NA)
    ELSE LET t == format_f2(v.n, half) IN Returns(SubSeq(t, 1, Len(t) - 1))

\* _format_ratio
format_ratio(v, half) ==
    IF v.kind = "none" THEN Returns(NA)
    ELSE LET r == format_ratio_try(v, half)
         IN IF r.raised THEN Returns(NA) ELSE r

\* line 562: the try block of _format_percent
format_percent_try(v, half) ==
    IF v.kind # "num" THEN Raises
    ELSE Returns(format_f2(mul_100(v.n), half) \o <<"%">>)

\* a variant of _format_percent that does not scale
format_percent_unscaled(v, half) ==
    IF v.kind # "num" THEN Returns(NA)
    ELSE Returns(format_f2(v.n, half) \o <<"%">>)

\* _format_percent
format_percent(v, half) ==
    IF v.kind = "none" THEN Returns(NA)
    ELSE LET r == format_percent_try(v, half)
         IN IF r.raised THEN Returns(NA) ELSE r

\* company info records the provider can return (a selection of the fields
\* the display reads): complete, empty, and with a field holding None
FullInfo ==
    [longName |-> Str("Acme"), longBusinessSummary |-> Str("Makes things"),
     marketCap |-> Num(Whole(<<2, 5, 0, 0, 0, 0, 0, 0, 0, 0>>)),
     recommendationKey |-> Str("buy"),
     dividendYield |-> Num(Decimal(FALSE, <<>>, <<0, 2, 1, 5>>))]

EmptyInfo ==
    [longName |-> Absent, longBusinessSummary |-> Absent, marketCap |-> Absent,
     recommendationKey |-> Absent, dividendYield |-> Absent]

NullSummaryInfo == [FullInfo EXCEPT !.longBusinessSummary = PyNone]

NullRecommendationInfo == [FullInfo EXCEPT !.recommendationKey = PyNone]

Infos == {FullInfo, EmptyInfo, NullSummaryInfo, NullRecommendationInfo}

\* every record in which each field is there, holds None, or is missing
InfoShapes == [DOMAIN FullInfo -> {"value", "none", "absent"}]

InfoOf(shape) ==
    [f \in DOMAIN FullInfo |->
        IF shape[f] = "value" THEN FullInfo[f]
        ELSE IF shape[f] = "none" THEN PyNone ELSE Absent]

AllInfos == {InfoOf(shape) : shape \in InfoShapes}

\* what a lookup at the provider meets: a record, or an exception
Found(info) == [ok |-> TRUE, info |-> Some(info), msg |-> ""]
LookupError(msg) == [ok |-> FALSE, info |-> None, msg |-> msg]

ProviderOutcomes == {Found(i) : i \in Infos} \cup {LookupError("HTTP Error 404")}

\* a variant that fills the fields the provider left out
get_company_info_filled(symbol, outcome) ==
    IF outcome.ok
    THEN [raised |-> None,
          value |-> Some([f \in DOMAIN outcome.info[1] |->
                             IF outcome.info[1][f] = Absent THEN PyNone
                             ELSE outcome.info[1][f]])]
    ELSE [raised |-> Some(outcome.msg), value |-> None]

\* a variant that swallows the failure of the lookup and yields an empty record
get_company_info_swallow(symbol, outcome) ==
    [raised |-> None,
     value |-> IF outcome.ok THEN outcome.info ELSE Some(EmptyInfo)]

\* stock_handler.get_company_info: the provider's record, or its exception
get_company_info(symbol, outcome) ==
    IF outcome.ok
    THEN [raised |-> None, value |-> outcome.info]
    ELSE [raised |-> Some(outcome.msg), value |-> None]

\* the request lines 49-50 send
LookupRequest(symbol) == [op |-> "lookup", symbol |-> symbol]

\* a variant that looks a symbol up only the first time it is asked for
get_company_info_requests_cached(symbol, sent) ==
    IF \E i \in 1..Len(sent) : sent[i] = LookupRequest(symbol)
    THEN <<>>
    ELSE <<LookupRequest(symbol)>>

\* the requests one call of get_company_info sends, `sent` being the requests
\* sent before: a new yf.Ticker and its .info on every call, nothing kept
get_company_info_requests(symbol, sent) == <<LookupRequest(symbol)>>

\* the quick access symbols
CEU == <<"C", "E", "U", ".", "T", "O">>
CCO == <<"C", "C", "O", ".", "T", "O">>
TSAT == <<"T", "S", "A", "T", ".", "T", "O">>
quick_stocks == <<CEU, CCO, TSAT>>

\* the widgets as setup_ui leaves them
InitialWidgets ==
    [company_text |-> None, market_cap_label |-> "Market Cap: -",
     recommendation_label |-> "Recommendation: -",
     dividend_yield_label |-> "Dividend Yield: -"]

\* the elements of the web page as the template leaves them
InitialPage ==
    [companyInfo |-> None, marketCap |-> "-", recommendation |-> "-",
     dividendYield |-> "-", messages |-> "", uncaught |-> None]

InitNoFormat ==
    /\ fmt_value = PyNone
    /\ fmt_result = None

InitWindows(program) ==
    /\ frontend = program
    /\ provider = None
    /\ symbol_var = CEU
    /\ analyze_btn = "normal"
    /\ workers = <<>>
    /\ started = 0
    /\ after_queue = <<>>
    /\ widgets = InitialWidgets
    /\ dialogs = <<>>
    /\ web_request = None
    /\ web_response = None
    /\ page = InitialPage
    /\ stdout = None
    /\ invoked = <<>>
    /\ outbound = <<>>

InitFront(program) == InitWindows(program) /\ InitNoFormat

InitNoFront == InitFront("console")

Threads == {"t1", "t2"}

NoFiles == [n \in {} |-> 0]

InitIdle ==
    /\ dir0 = NoFiles
    /\ files = NoFiles
    /\ disk = "none"
    /\ pc = [p \in Threads |-> "idle"]
    /\ symbols = [p \in Threads |-> <<>>]
    /\ filename = [p \in Threads |-> ""]
    /\ counter = [p \in Threads |-> 0]
    /\ before = NoFiles
    /\ log = <<>>

InitNoData ==
    /\ response = None
    /\ lines = None
    /\ stock_list = None
    /\ raised = None

InitParse ==
    /\ network \in Answers
    /\ market = ProviderOutcomes
    /\ InitNoData
    /\ InitIdle
    /\ InitNoFront

NextParse == get_all_data

SpecParse == InitParse /\ [][NextParse]_vars

(***************************************************************************)
(* Claims about get_all_stock_symbols (checked under SpecParse).           *)
(* The properties are stated over the text itself, by positions, and not   *)
(* through the operators above that compute the result.                    *)
(***************************************************************************)

\* get_all_data has been called: it returned or it raised
DataCalled == stock_list # None \/ raised # None

\* positions of a text at which a line terminator ends
TerminatorEnds(s) ==
    {i \in 1..Len(s) :
        \/ s[i] = LF
        \/ s[i] = CR /\ ~(i < Len(s) /\ s[i + 1] = LF)}

\* positions at which a line of the text starts
LineStarts(s) ==
    LET ends == TerminatorEnds(s)
    IN {i \in 1..Len(s) : i = 1 \/ (i - 1) \in ends}

Minimum(S) == CHOOSE m \in S : \A x \in S : m <= x

\* k-th smallest element of a finite set of integers
Nth(S, k) == CHOOSE a \in S : Cardinality({b \in S : b < a}) = k - 1

\* the line that starts at position a: up to the next line-break character
LineAt(s, a) ==
    LET stop == Minimum({j \in a..Len(s) : s[j] \in {LF, CR}} \cup {Len(s) + 1})
    IN SubSeq(s, a, stop - 1)

\* the lines of a text, in order
LinesOf(s) ==
    LET starts == LineStarts(s)
    IN [k \in 1..Cardinality(starts) |-> LineAt(s, Nth(starts, k))]

NonBlank(line) == \E i \in 1..Len(line) : line[i] \notin Whitespace

FirstInk(line) == Minimum({i \in 1..Len(line) : line[i] \notin Whitespace})

HasAt(line, k, word) ==
    \A j \in 1..Len(word) : k + j - 1 <= Len(line) /\ line[k + j - 1] = word[j]

\* a data line: non-blank and, trimmed, starting with neither marker
Accepted(line) ==
    /\ NonBlank(line)
    /\ LET k == FirstInk(line)
       IN ~HasAt(line, k, AsOf) /\ ~HasAt(line, k, SymbolHdr)

\* the first whitespace-delimited token of a data line, cut at its first colon
Entry(line) ==
    LET k == FirstInk(line)
        stop == Minimum({j \in k..Len(line) : line[j] \in Whitespace \cup {COLON}}
                        \cup {Len(line) + 1})
    IN SubSeq(line, k, stop - 1)

AcceptedIdx(ls) == {i \in 1..Len(ls) : Accepted(ls[i])}

ExpectedSymbols(s) ==
    LET ls == LinesOf(s)
        acc == AcceptedIdx(ls)
    IN [j \in 1..Cardinality(acc) |-> Entry(ls[Nth(acc, j)])]

\* C4: whenever get_all_stock_symbols returns, its value is, in line order, one
\* entry per data line of the body (non-blank, not starting with "As of" or
\* "Symbol" once trimmed), each entry the first token of its line cut at the
\* first colon; for the example listing the value is exactly ["ABC"].
C4_ParseResult ==
    stock_list # None =>
        /\ stock_list[1] = ExpectedSymbols(network.text)
        /\ network.text = ExampleText => stock_list[1] = << <<"A", "B", "C">> >>

C4_Witness ==
    /\ network.text = ExampleText
    /\ stock_list = Some(<< <<"A", "B", "C">> >>)

\* C5: every ticker returned is non-empty and contains neither whitespace nor
\* a colon.
C5_TickersNonEmpty ==
    stock_list # None =>
        \A i \in 1..Len(stock_list[1]) :
            /\ stock_list[1][i] # <<>>
            /\ \A j \in 1..Len(stock_list[1][i]) :
                   stock_list[1][i][j] \notin Whitespace \cup {COLON}

Occurrences(seq, x) == Cardinality({i \in 1..Len(seq) : seq[i] = x})

\* C6: no de-duplication and no reordering: the result is as long as the
\* number of data lines, each symbol occurs as often as it has data lines, and
\* the entries follow the order of their lines.
C6_NoDedupNoReorder ==
    stock_list # None =>
        LET res == stock_list[1]
            ls == LinesOf(network.text)
            acc == AcceptedIdx(ls)
        IN /\ Len(res) = Cardinality(acc)
           /\ \A a \in acc :
                  Occurrences(res, Entry(ls[a]))
                      = Cardinality({b \in acc : Entry(ls[b]) = Entry(ls[a])})
           /\ \E f \in [1..Len(res) -> acc] :
                  /\ \A i, j \in 1..Len(res) : i < j => f[i] < f[j]
                  /\ \A i \in 1..Len(res) : res[i] = Entry(ls[f[i]])

C6_Witness ==
    /\ stock_list # None
    /\ Len(stock_list[1]) = 2
    /\ stock_list[1][1] = stock_list[1][2]

\* C7 as stated: on a non-2xx response or a transport failure the call fails,
\* returns no sequence, and the body is not parsed.
C7_Non2xxFails ==
    (DataCalled /\ (~network.transport_ok \/ network.status_code \notin 200..299)) =>
        /\ raised # None
        /\ stock_list = None
        /\ lines = None

\* C7 amended: on a 4xx or 5xx response or a transport failure the call fails,
\* returns no sequence, and the body is not parsed.
C7_ErrorStatusFails ==
    (DataCalled /\ (~network.transport_ok \/ network.status_code \in 400..599)) =>
        /\ raised # None
        /\ stock_list = None
        /\ lines = None

C7_Witness ==
    /\ raised = Some("HTTPError")
    /\ network.text # <<>>
    /\ stock_list = None
    /\ lines = None

(***************************************************************************)
(* stock_handler.get_all_stock: fetch, probe for a free name, write.       *)
(***************************************************************************)
base_filename == "tsx_symbols.xlsx"

\* the file names tsx_symbols_<n>.xlsx, written out for n = 1, 2, ...
NumberedNames ==
    <<"tsx_symbols_1.xlsx", "tsx_symbols_2.xlsx", "tsx_symbols_3.xlsx",
      "tsx_symbols_4.xlsx", "tsx_symbols_5.xlsx", "tsx_symbols_6.xlsx",
      "tsx_symbols_7.xlsx", "tsx_symbols_8.xlsx", "tsx_symbols_9.xlsx",
      "tsx_symbols_10.xlsx", "tsx_symbols_11.xlsx", "tsx_symbols_12.xlsx">>

\* a variant that numbers the names from the counter after the increment
SuffixedNameNext(n) == "tsx_symbols_" \o ToString(n + 1) \o ".xlsx"

\* line 39: f"tsx_symbols_{counter}.xlsx"
SuffixedName(n) == "tsx_symbols_" \o ToString(n) \o ".xlsx"

\* a variant of the probe that looks at the base name only
path_exists_base_only(name) == name = base_filename /\ name \in DOMAIN files

\* a variant of the probe that finds nothing
path_exists_never(name) == FALSE

\* os.path.exists(filename)
path_exists(name) == name \in DOMAIN files

\* a variant written with the index column (index=True)
SpreadsheetWithIndex(rows) == [columns |-> <<"", "Symbol">>, rows |-> rows]

\* pd.DataFrame({'Symbol': symbols}) written with index=False: one column
Spreadsheet(rows) == [columns |-> <<"Symbol">>, rows |-> rows]

\* what a write that failed half way leaves behind
PartialFile == [columns |-> <<>>, rows |-> <<>>]

\* an export file of an earlier run
OldExport == Spreadsheet(<< <<"O", "L", "D">> >>)

\* a variant that creates the file only if the name is free (exclusive create)
WithFileExclusive(dir, name, content) ==
    [n \in DOMAIN dir \cup {name} |->
        IF n = name /\ n \notin DOMAIN dir THEN content ELSE dir[n]]

\* the directory with `name` (over)written with `content`
WithFile(dir, name, content) ==
    [n \in DOMAIN dir \cup {name} |-> IF n = name THEN content ELSE dir[n]]

\* how df.to_excel can end: written, or failed leaving nothing or a partial file
DiskOutcomes == {"ok", "fail_clean", "fail_partial"}

\* a variant that swallows the failure of the write
to_excel_raises_never(outcome) == FALSE

\* df.to_excel raises when the write fails
to_excel_raises(outcome) == outcome # "ok"

\* line 43: the effect of df.to_excel(filename) on the directory
to_excel(dir, name, rows, outcome) ==
    IF outcome = "ok" THEN WithFile(dir, name, Spreadsheet(rows))
    ELSE IF outcome = "fail_partial" THEN WithFile(dir, name, PartialFile)
    ELSE dir

\* a listing in which a symbol comes twice, out of alphabetical order
RepeatedText == JoinLines(<<LineTabbed, LineABC, LineTabbed>>, <<LF>>)

\* answers of the network met by the exports
ExportAnswers ==
    {TransportFailure, HttpAnswer(404, LineABC),
     HttpAnswer(200, ExampleText), HttpAnswer(200, <<>>),
     HttpAnswer(200, RepeatedText)}

\* names a directory may hold at the start: the export names up to
\* MaxExisting, and a name that only looks like one
StartNames ==
    {base_filename, "tsx_symbols_01.xlsx"} \cup {NumberedNames[n] : n \in 1..MaxExisting}

AllIdle == \A p \in Threads : pc[p] = "idle"

Started == Len(log) + Cardinality({p \in Threads : pc[p] # "idle"})

EndCall(p) ==
    /\ pc' = [pc EXCEPT ![p] = "idle"]
    /\ symbols' = [symbols EXCEPT ![p] = <<>>]
    /\ filename' = [filename EXCEPT ![p] = ""]
    /\ counter' = [counter EXCEPT ![p] = 0]

\* lines 31-37: entry, the fetch, and the initial locals; a failing fetch
\* ends the call with the exception
Call(p) ==
    /\ pc[p] = "idle"
    /\ Len(invoked) < MaxCalls
    /\ \E answer \in ExportAnswers :
        LET out == get_all_stock_symbols(answer)
        IN /\ network' = answer
           /\ invoked' = Append(invoked, Invocation("get_all_stock", <<>>))
           /\ outbound' = outbound \o get_all_stock_symbols_requests(answer)
           /\ before' = files
           /\ disk' = "none"
           /\ IF out.raised # None
              THEN /\ log' = Append(log, [ret |-> None, err |-> out.raised])
                   /\ UNCHANGED <<pc, symbols, filename, counter>>
              ELSE /\ pc' = [pc EXCEPT ![p] = "probe"]
                   /\ symbols' = [symbols EXCEPT ![p] = out.value[1]]
                   /\ filename' = [filename EXCEPT ![p] = base_filename]
                   /\ counter' = [counter EXCEPT ![p] = 1]
                   /\ UNCHANGED log
    /\ UNCHANGED <<dir0, files, parseVars, frontVars>>

\* a variant of the loop body without counter += 1
ProbeNoIncrement(p) ==
    /\ pc[p] = "probe"
    /\ IF path_exists(filename[p])
       THEN /\ filename' = [filename EXCEPT ![p] = SuffixedName(counter[p])]
            /\ UNCHANGED <<pc, counter>>
       ELSE /\ pc' = [pc EXCEPT ![p] = "write"]
            /\ UNCHANGED <<filename, counter>>
    /\ UNCHANGED <<network, parseVars, dir0, files, disk, symbols, before, log>>
    /\ UNCHANGED <<invoked, outbound, frontVars>>

\* lines 38-40: one test of the loop condition, and the loop body if it holds
Probe(p) ==
    /\ pc[p] = "probe"
    /\ IF path_exists(filename[p])
       THEN /\ filename' = [filename EXCEPT ![p] = SuffixedName(counter[p])]
            /\ counter' = [counter EXCEPT ![p] = counter[p] + 1]
            /\ UNCHANGED pc
       ELSE /\ pc' = [pc EXCEPT ![p] = "write"]
            /\ UNCHANGED <<filename, counter>>
    /\ UNCHANGED <<network, parseVars, dir0, files, disk, symbols, before, log>>
    /\ UNCHANGED <<invoked, outbound, frontVars>>

\* lines 43-45: the write, and the return of the filename if it did not raise
Write(p) ==
    /\ pc[p] = "write"
    /\ \E outcome \in DiskOutcomes :
        /\ disk' = outcome
        /\ files' = to_excel(files, filename[p], symbols[p], outcome)
        /\ IF to_excel_raises(outcome)
           THEN log' = Append(log, [ret |-> None, err |-> Some("IOError")])
           ELSE log' = Append(log, [ret |-> Some(filename[p]), err |-> None])
    /\ EndCall(p)
    /\ UNCHANGED <<network, parseVars, dir0, before, invoked, outbound, frontVars>>

\* a call is entered only when no other call is running
SequentialCall(p) == AllIdle /\ Call(p)

Init ==
    /\ network = TransportFailure
    /\ InitNoData
    /\ \E names \in SUBSET StartNames :
        /\ dir0 = [n \in names |-> OldExport]
        /\ files = dir0
    /\ disk = "none"
    /\ pc = [p \in Threads |-> "idle"]
    /\ symbols = [p \in Threads |-> <<>>]
    /\ filename = [p \in Threads |-> ""]
    /\ counter = [p \in Threads |-> 0]
    /\ before = dir0
    /\ log = <<>>
    /\ market = ProviderOutcomes
    /\ InitNoFront

Next == \E p \in Threads : SequentialCall(p) \/ Probe(p) \/ Write(p)

Spec == Init /\ [][Next]_vars

(***************************************************************************)
(* Claims about get_all_stock, for calls that do not overlap (Spec).       *)
(***************************************************************************)

\* a call has completed and no other has been entered since
CallCompleted == AllIdle /\ log # <<>>

LastOutcome == log[Len(log)]

IsExportName(name) ==
    name = "tsx_symbols.xlsx" \/ \E n \in DOMAIN NumberedNames : name = NumberedNames[n]

\* the name the claim prescribes for a directory holding the names D
PrescribedName(D) ==
    IF "tsx_symbols.xlsx" \notin D
    THEN "tsx_symbols.xlsx"
    ELSE NumberedNames[CHOOSE n \in DOMAIN NumberedNames :
                           /\ NumberedNames[n] \notin D
                           /\ \A m \in 1..(n - 1) : NumberedNames[m] \in D]

\* C1: a call that returns has written to, and returned, tsx_symbols.xlsx if
\* no such file was present at the call, and otherwise tsx_symbols_<n>.xlsx
\* for the smallest n >= 1 whose name was not present.
C1_FirstFreeName ==
    (CallCompleted /\ LastOutcome.ret # None) =>
        /\ LastOutcome.ret[1] = PrescribedName(DOMAIN before)
        /\ PrescribedName(DOMAIN before) \in DOMAIN files
        /\ files[PrescribedName(DOMAIN before)].columns = <<"Symbol">>

C1_Witness ==
    /\ CallCompleted
    /\ LastOutcome.ret = Some("tsx_symbols_1.xlsx")
    /\ "tsx_symbols.xlsx" \in DOMAIN before
    /\ "tsx_symbols_2.xlsx" \in DOMAIN before

\* C2: a call that returns has created exactly one file, under a name that
\* was not present at the call; and no call, returning or not, overwrites,
\* modifies or deletes a file that was present when it was entered.
C2_NoOverwrite ==
    CallCompleted =>
        /\ \A n \in DOMAIN before : n \in DOMAIN files /\ files[n] = before[n]
        /\ LastOutcome.ret # None =>
               /\ LastOutcome.ret[1] \notin DOMAIN before
               /\ DOMAIN files = DOMAIN before \cup {LastOutcome.ret[1]}

C2_Witness ==
    /\ CallCompleted
    /\ LastOutcome.ret # None
    /\ Len(log) >= 2
    /\ Cardinality(DOMAIN before) >= 2
    /\ Cardinality(DOMAIN files) = Cardinality(DOMAIN before) + 1

\* the filenames returned so far, in order
RECURSIVE ReturnedOf(_)
ReturnedOf(l) ==
    IF l = <<>> THEN <<>>
    ELSE IF Head(l).ret # None
         THEN <<Head(l).ret[1]>> \o ReturnedOf(Tail(l))
         ELSE ReturnedOf(Tail(l))

Returned == ReturnedOf(log)

NoExportFileAtStart == \A n \in DOMAIN dir0 : ~IsExportName(n)

NoWriteFailed == \A i \in 1..Len(log) : log[i].err # Some("IOError")

KthName(k) == IF k = 1 THEN "tsx_symbols.xlsx" ELSE NumberedNames[k - 1]

FetchFails(answer) == ~answer.transport_ok \/ answer.status_code \in 400..599

\* C8: when the fetch of a call fails, the call ends with that error, returns
\* no filename, attempts no write, and leaves the directory as it was.
C8_FetchFailureNoFile ==
    (CallCompleted /\ FetchFails(network)) =>
        /\ LastOutcome.err \in {Some("ConnectionError"), Some("HTTPError")}
        /\ LastOutcome.ret = None
        /\ disk = "none"
        /\ files = before

C8_Witness ==
    /\ CallCompleted
    /\ FetchFails(network)
    /\ LastOutcome.err = Some("HTTPError")
    /\ DOMAIN files # {}
    /\ Len(log) >= 2

\* C9: when the write of a call fails, the call ends with an error and returns
\* no filename; a filename is returned only once the spreadsheet has been
\* written completely under that name.
C9_WriteFailureNoFilename ==
    CallCompleted =>
        /\ disk \in {"fail_clean", "fail_partial"} =>
               LastOutcome.err = Some("IOError") /\ LastOutcome.ret = None
        /\ LastOutcome.ret # None =>
               /\ disk = "ok"
               /\ LastOutcome.ret[1] \in DOMAIN files
               /\ files[LastOutcome.ret[1]] # PartialFile

C9_Witness ==
    /\ CallCompleted
    /\ disk = "fail_partial"
    /\ LastOutcome.err = Some("IOError")
    /\ LastOutcome.ret = None

(***************************************************************************)
(* The formatters called on their own, on one value per run.               *)
(***************************************************************************)
MantissaDigits == {0, 1, 4, 5, 9}

\* the number with the decimal digits ds, the last four of them after the point
RECURSIVE DropTrailingZeros(_)
DropTrailingZeros(ds) ==
    IF ds # <<>> /\ ds[Len(ds)] = 0
    THEN DropTrailingZeros(SubSeq(ds, 1, Len(ds) - 1))
    ELSE ds

FromDigits(neg, ds) ==
    LET padded == Zeros(4) \o ds
    IN Decimal(neg, StripZeros(SubSeq(padded, 1, Len(padded) - 4)),
               DropTrailingZeros(SubSeq(padded, Len(padded) - 3, Len(padded))))

IsZero(d) == d.int = <<>> /\ AllZero(d.frac)

\* m * 10^(z-4) for every mantissa m of MantissaLen digits and every shift z,
\* and the same below zero
GridNumbers ==
    LET pos == {FromDigits(FALSE, m \o Zeros(z)) :
                    m \in [1..MantissaLen -> MantissaDigits], z \in 0..MaxShift}
    IN pos \cup {[d EXCEPT !.neg = TRUE] : d \in {e \in pos : ~IsZero(e)}}

\* the numbers of the examples: 12, 0.1534, 1234.5, 1234567.891, 2.675, and
\* numbers just below a threshold: 999.999, 999999.9, 999999999
ExampleNumbers ==
    {FromDigits(FALSE, <<1, 2, 0, 0, 0, 0>>),
     FromDigits(FALSE, <<1, 5, 3, 4>>),
     FromDigits(FALSE, <<1, 2, 3, 4, 5, 0, 0, 0>>),
     FromDigits(FALSE, <<1, 2, 3, 4, 5, 6, 7, 8, 9, 1, 0>>),
     FromDigits(FALSE, <<2, 6, 7, 5, 0>>),
     FromDigits(FALSE, <<9, 9, 9, 9, 9, 9, 0>>),
     FromDigits(FALSE, <<9, 9, 9, 9, 9, 9, 9, 0, 0, 0>>),
     FromDigits(FALSE, <<9, 9, 9, 9, 9, 9, 9, 9, 9, 0, 0, 0, 0>>)}

FormatInputs ==
    {PyNone, Str("abc"), Str(""), Mapping}
        \cup {Num(d) : d \in GridNumbers \cup ExampleNumbers}

Halves == {"down", "up"}

Called(fn, half, r) == Some([fn |-> fn, half |-> half, raised |-> r.raised, text |-> r.text])

FormatNumber ==
    /\ fmt_result = None
    /\ \E half \in Halves :
        fmt_result' = Called("_format_number", half, format_number(fmt_value, half))
    /\ UNCHANGED <<fmt_value, network, parseVars, exportVars, frontend, provider,
                   symbol_var, analyze_btn, workers, started, after_queue, widgets,
                   dialogs, web_request, web_response, page, stdout, invoked,
                   outbound, market>>

FormatPrice ==
    /\ fmt_result = None
    /\ \E half \in Halves :
        fmt_result' = Called("_format_price", half, format_price(fmt_value, half))
    /\ UNCHANGED <<fmt_value, network, parseVars, exportVars, frontend, provider,
                   symbol_var, analyze_btn, workers, started, after_queue, widgets,
                   dialogs, web_request, web_response, page, stdout, invoked,
                   outbound, market>>

FormatRatio ==
    /\ fmt_result = None
    /\ \E half \in Halves :
        fmt_result' = Called("_format_ratio", half, format_ratio(fmt_value, half))
    /\ UNCHANGED <<fmt_value, network, parseVars, exportVars, frontend, provider,
                   symbol_var, analyze_btn, workers, started, after_queue, widgets,
                   dialogs, web_request, web_response, page, stdout, invoked,
                   outbound, market>>

FormatPercent ==
    /\ fmt_result = None
    /\ \E half \in Halves :
        fmt_result' = Called("_format_percent", half, format_percent(fmt_value, half))
    /\ UNCHANGED <<fmt_value, network, parseVars, exportVars, frontend, provider,
                   symbol_var, analyze_btn, workers, started, after_queue, widgets,
                   dialogs, web_request, web_response, page, stdout, invoked,
                   outbound, market>>

\* line 449 on a record whose marketCap is the value
ConfigMarketCapLabel ==
    /\ fmt_result = None
    /\ \E half \in Halves :
        fmt_result' = Called("market_cap_label", half,
                             Returns(market_cap_text(fmt_value, half)))
    /\ UNCHANGED <<fmt_value, network, parseVars, exportVars, frontend, provider,
                   symbol_var, analyze_btn, workers, started, after_queue, widgets,
                   dialogs, web_request, web_response, page, stdout, invoked,
                   outbound, market>>

InitFormat ==
    /\ network = TransportFailure
    /\ market = ProviderOutcomes
    /\ InitNoData
    /\ InitIdle
    /\ InitWindows("desktop")
    /\ fmt_value \in FormatInputs
    /\ fmt_result = None

NextFormat ==
    \/ FormatNumber
    \/ FormatPrice
    \/ FormatRatio
    \/ FormatPercent
    \/ ConfigMarketCapLabel

SpecFormat == InitFormat /\ [][NextFormat]_vars

(***************************************************************************)
(* Claims about the formatters (checked under SpecFormat).  The output is  *)
(* read back character by character, and compared with the argument as     *)
(* whole numbers of a common small unit, written in decimal digits.        *)
(***************************************************************************)

\* x <= y for natural numbers written in digits without leading zeros
RECURSIVE DigitsLeq(_, _)
DigitsLeq(x, y) ==
    IF x = <<>> THEN TRUE
    ELSE IF Head(x) # Head(y) THEN Head(x) < Head(y)
    ELSE DigitsLeq(Tail(x), Tail(y))

NatLeq(x, y) == Len(x) < Len(y) \/ (Len(x) = Len(y) /\ DigitsLeq(x, y))

\* x + y + carry
RECURSIVE NatAddCarry(_, _, _)
NatAddCarry(x, y, carry) ==
    IF x = <<>> /\ y = <<>>
    THEN IF carry = 0 THEN <<>> ELSE <<carry>>
    ELSE LET a == IF x = <<>> THEN 0 ELSE x[Len(x)]
             b == IF y = <<>> THEN 0 ELSE y[Len(y)]
             t == a + b + carry
         IN NatAddCarry(IF x = <<>> THEN <<>> ELSE SubSeq(x, 1, Len(x) - 1),
                        IF y = <<>> THEN <<>> ELSE SubSeq(y, 1, Len(y) - 1),
                        t \div 10) \o <<t % 10>>

NatAdd(x, y) == NatAddCarry(x, y, 0)

\* |a - b| <= tol
Within(a, b, tol) == NatLeq(a, NatAdd(b, tol)) /\ NatLeq(b, NatAdd(a, tol))

\* |d| * 10^n as a natural number, for n at least the number of decimals of d
Scaled(d, n) == StripZeros(d.int \o d.frac \o Zeros(n - Len(d.frac)))

Pow10(k) == <<1>> \o Zeros(k)

Max(a, b) == IF a >= b THEN a ELSE b

\* the argument and the result of the call of formatter fn, if it was called
CalledFormatter(fn) == fmt_result # None /\ fmt_result[1].fn = fn

Arg == fmt_value.n

Out == fmt_result[1].text

IsDigitChar(c) == c \in {"0", "1", "2", "3", "4", "5", "6", "7", "8", "9"}

DigitValue(c) == CHOOSE d \in 0..9 : ToString(d) = c

NotComma(c) == c # ","

\* the text without a leading currency symbol and a final B, M, K or %
Suffix(t) == IF t # <<>> /\ t[Len(t)] \in {"B", "M", "K", "%"} THEN t[Len(t)] ELSE ""

Body(t) ==
    LET a == IF t # <<>> /\ t[1] = "$" THEN Tail(t) ELSE t
    IN IF Suffix(t) = "" THEN a ELSE SubSeq(a, 1, Len(a) - 1)

Unsigned(b) == IF b # <<>> /\ b[1] = "-" THEN Tail(b) ELSE b

IntChars(b) == SubSeq(Unsigned(b), 1, Len(Unsigned(b)) - 3)

\* b is [-]digits.dd, the digits of the integer part in groups of three
\* separated by commas if `grouped`, and without a leading zero
TwoDecimalForm(b, grouped) ==
    LET u == Unsigned(b)
        L == Len(u)
        ip == IntChars(b)
    IN /\ L >= 4
       /\ u[L - 2] = "."
       /\ IsDigitChar(u[L - 1])
       /\ IsDigitChar(u[L])
       /\ \A i \in 1..Len(ip) :
              IF grouped /\ (Len(ip) - i + 1) % 4 = 0
              THEN ip[i] = ","
              ELSE IsDigitChar(ip[i])
       /\ ip[1] # ","
       /\ (ip[1] = "0" => Len(ip) = 1)

\* the number b denotes, times 100, in digits
Hundredths(b) ==
    LET u == Unsigned(b)
        ds == SelectSeq(IntChars(b), NotComma) \o SubSeq(u, Len(u) - 1, Len(u))
    IN StripZeros([i \in 1..Len(ds) |-> DigitValue(ds[i])])

\* b renders the number d / 10^k to two decimals: the form, the sign, and a
\* value at most 0.005 away
RendersScaled(b, d, k, grouped) ==
    LET n == Max(Len(d.frac) + k, 3)
    IN /\ TwoDecimalForm(b, grouped)
       /\ (b[1] = "-") <=> d.neg
       /\ Within(Hundredths(b) \o Zeros(n - 2), Scaled(d, n - k), <<5>> \o Zeros(n - 3))

\* the power of ten the magnitude of d selects, and its suffix
MagnitudeExp(d) ==
    LET m == StripZeros(d.int)
    IN IF NatLeq(Pow10(9), m) THEN 9
       ELSE IF NatLeq(Pow10(6), m) THEN 6
       ELSE IF NatLeq(Pow10(3), m) THEN 3
       ELSE 0

SuffixFor(k) == IF k = 9 THEN "B" ELSE IF k = 6 THEN "M" ELSE IF k = 3 THEN "K" ELSE ""

\* C14: _format_number selects its branch by the magnitude |x| of every number
\* x, negative x included: x/1e9, x/1e6 or x/1e3 with two decimals and the
\* suffix B, M or K from 1e9, 1e6 or 1e3 on, below that x with two decimals
\* and thousands grouping and no suffix; None gives N/A.
C14_BranchByMagnitude ==
    CalledFormatter("_format_number") =>
        /\ fmt_value.kind = "none" => Out = <<"N", "/", "A">>
        /\ fmt_value.kind = "num" =>
               /\ Suffix(Out) = SuffixFor(MagnitudeExp(Arg))
               /\ RendersScaled(Body(Out), Arg, MagnitudeExp(Arg), MagnitudeExp(Arg) = 0)

NonNegative(d) == ~d.neg

AtLeastHalf(d) == d.int # <<>> \/ (d.frac # <<>> /\ d.frac[1] >= 5)

\* the value read back from the output (body times the scale of the suffix)
\* is within 1% of the argument
ReadsBackRelative(t, d) ==
    LET k == IF Suffix(t) = "B" THEN 9 ELSE IF Suffix(t) = "M" THEN 6
             ELSE IF Suffix(t) = "K" THEN 3 ELSE 0
        n == Len(d.frac) + 2
    IN Within(Hundredths(Body(t)) \o Zeros(k + n - 2), Scaled(d, n), Scaled(d, n - 2))

\* the value read back is within 0.01 of the argument
ReadsBackAbsolute(t, d) ==
    LET k == IF Suffix(t) = "B" THEN 9 ELSE IF Suffix(t) = "M" THEN 6
             ELSE IF Suffix(t) = "K" THEN 3 ELSE 0
        n == Len(d.frac) + 2
    IN Within(Hundredths(Body(t)) \o Zeros(k + n - 2), Scaled(d, n), Pow10(n - 2))

SuffixByThreshold(t, d) ==
    /\ Suffix(t) = SuffixFor(MagnitudeExp(d))
    /\ TwoDecimalForm(Body(t), MagnitudeExp(d) = 0)

\* C15 as stated: for every x >= 0 the output of _format_number has the suffix
\* the thresholds select, and reads back to within 0.01 relative tolerance of
\* x, also for 0 < x < 0.005.
C15_ReadsBackWithinOnePercent ==
    (CalledFormatter("_format_number") /\ fmt_value.kind = "num" /\ NonNegative(Arg)) =>
        /\ SuffixByThreshold(Out, Arg)
        /\ ReadsBackRelative(Out, Arg)

\* C15 amended: the suffix is the one the thresholds select; the output reads
\* back to within 0.01 relative tolerance of x for x = 0 and for x >= 0.5, and
\* to within 0.01 absolute of x for 0 < x < 0.5.
C15_ReadsBackFromHalfUp ==
    (CalledFormatter("_format_number") /\ fmt_value.kind = "num" /\ NonNegative(Arg)) =>
        /\ SuffixByThreshold(Out, Arg)
        /\ (IsZero(Arg) \/ AtLeastHalf(Arg)) => ReadsBackRelative(Out, Arg)
        /\ ~(IsZero(Arg) \/ AtLeastHalf(Arg)) => ReadsBackAbsolute(Out, Arg)

\* 999999.9 is rendered $1000.00K: just below a threshold
C15_Witness ==
    /\ CalledFormatter("_format_number")
    /\ fmt_value = Num(Decimal(FALSE, <<9, 9, 9, 9, 9, 9>>, <<9>>))
    /\ Out = <<"$", "1", "0", "0", "0", ".", "0", "0", "K">>

\* C16: _format_price and _format_ratio return the same string for every
\* input: N/A for None, and the value with exactly two decimals otherwise
\* (12 gives 12.00).
C16_PriceAndRatioAgree ==
    /\ CalledFormatter("_format_price") =>
           Out = format_ratio(fmt_value, fmt_result[1].half).text
    /\ CalledFormatter("_format_ratio") =>
           Out = format_price(fmt_value, fmt_result[1].half).text
    /\ (CalledFormatter("_format_price") \/ CalledFormatter("_format_ratio")) =>
           /\ fmt_value.kind = "none" => Out = <<"N", "/", "A">>
           /\ fmt_value.kind = "num" => RendersScaled(Out, Arg, 0, FALSE)

C16_Witness ==
    /\ CalledFormatter("_format_ratio")
    /\ fmt_value = Num(Decimal(FALSE, <<1, 2>>, <<>>))
    /\ Out = <<"1", "2", ".", "0", "0">>

\* C17: _format_percent returns N/A for None and otherwise x*100 with exactly
\* two decimals followed by %, for every number x, 0 and negative x included
\* (0.1534 gives 15.34%).
C17_PercentTimesHundred ==
    CalledFormatter("_format_percent") =>
        /\ fmt_value.kind = "none" => Out = <<"N", "/", "A">>
        /\ fmt_value.kind = "num" =>
               /\ Out[Len(Out)] = "%"
               /\ RendersScaled(SubSeq(Out, 1, Len(Out) - 1), Arg, -2, FALSE)

C17_Witness ==
    /\ CalledFormatter("_format_percent")
    /\ fmt_value = Num(Decimal(FALSE, <<>>, <<1, 5, 3, 4>>))
    /\ Out = <<"1", "5", ".", "3", "4", "%">>

Formatters == {"_format_number", "_format_price", "_format_ratio", "_format_percent"}

\* C18: the four formatters are total: for every input, a number, None, or a
\* value that is not a number (a string, a mapping), each returns a string
\* and raises nothing; None and every value that is not a number give exactly
\* N/A.
C18_FormattersTotal ==
    (fmt_result # None /\ fmt_result[1].fn \in Formatters) =>
        /\ ~fmt_result[1].raised
        /\ Out # <<>>
        /\ \A i \in 1..Len(Out) : Out[i] \in STRING
        /\ fmt_value.kind # "num" => Out = <<"N", "/", "A">>

C18_Witness ==
    /\ CalledFormatter("_format_number")
    /\ fmt_value = Mapping
    /\ ~fmt_result[1].raised
    /\ Out = <<"N", "/", "A">>

CountOf(t, c) == Cardinality({i \in 1..Len(t) : t[i] = c})

\* the label of a monetary magnitude as set by _update_display
LabelSet == CalledFormatter("market_cap_label")

\* C19 as stated: _format_number itself emits no currency symbol, the caller
\* applies it; every displayed magnitude carries exactly one symbol and a
\* missing value is displayed as N/A without one.
C19_CallerAppliesSymbol ==
    /\ CalledFormatter("_format_number") => CountOf(Out, "$") = 0
    /\ (LabelSet /\ fmt_value.kind = "num") => CountOf(Out, "$") = 1
    /\ (LabelSet /\ fmt_value.kind = "none") =>
           /\ CountOf(Out, "$") = 0
           /\ SubSeq(Out, Len(Out) - 2, Len(Out)) = <<"N", "/", "A">>

\* C19 amended: _format_number itself emits the one currency symbol, in front
\* of every number, and the caller adds none; every displayed magnitude
\* carries exactly one symbol and a missing value is displayed as N/A without
\* one.
C19_FormatterAppliesSymbol ==
    /\ (CalledFormatter("_format_number") /\ fmt_value.kind = "num") =>
           Out[1] = "$" /\ CountOf(Out, "$") = 1
    /\ (CalledFormatter("_format_number") /\ fmt_value.kind = "none") =>
           Out = <<"N", "/", "A">>
    /\ (LabelSet /\ fmt_value.kind = "num") =>
           /\ CountOf(Out, "$") = 1
           /\ SubSeq(Out, 1, 13)
                  = <<"M", "a", "r", "k", "e", "t", " ", "C", "a", "p", ":", " ", "$">>
    /\ (LabelSet /\ fmt_value.kind = "none") =>
           Out = <<"M", "a", "r", "k", "e", "t", " ", "C", "a", "p", ":", " ",
                   "N", "/", "A">>

C19_Witness ==
    /\ LabelSet
    /\ fmt_value = Num(Decimal(FALSE, <<1, 5, 0, 0, 0, 0, 0, 0, 0, 0>>, <<>>))
    /\ Out = <<"M", "a", "r", "k", "e", "t", " ", "C", "a", "p", ":", " ",
               "$", "1", ".", "5", "0", "B">>

(***************************************************************************)
(* stock_handler.print_stock_info: the console display of a record, and    *)
(* the core operations called directly, one after the other.               *)
(***************************************************************************)
Printed(text) == [text |-> text, dict |-> None]

PrintedDict(info) == [text |-> "", dict |-> Some(info)]

\* f"{info.get(key)}"
get_str(v) ==
    IF v.kind \in {"absent", "none"} THEN "None"
    ELSE IF v.kind = "str" THEN v.s
    ELSE IF v.kind = "dict" THEN "{}"
    ELSE Flatten(py_str(v.n))

\* lines 58-112: the prints of the try block up to the first that raises
\* (of the fields of the sample records, in the order of the source), and
\* whether one raised
print_stock_info_try(info) ==
    LET head == <<Printed("Company Info:")>>
    IN IF info.longBusinessSummary.kind # "str"
       THEN [raised |-> TRUE, printed |-> head]
       ELSE LET upto1 == head \o
                    <<Printed("Description: " \o info.longBusinessSummary.s \o "..."),
                      Printed("Market & Valuation:")>>
            IN IF info.marketCap.kind # "num"
               THEN [raised |-> TRUE, printed |-> upto1]
               ELSE [raised |-> FALSE,
                     printed |-> upto1 \o
                       <<Printed("Market Cap: " \o Flatten(format_c(info.marketCap.n))),
                         Printed("Dividends:"),
                         Printed("Dividend Yield: " \o get_str(info.dividendYield)),
                         Printed("Analyst Recommendation:"),
                         Printed("Recommendation: "
                                     \o get_str(info.recommendationKey))>>]

\* print_stock_info(stock) when the lookup meets `outcome`: what it prints and
\* the exception it lets escape
print_stock_info(stock, outcome) ==
    LET got == get_company_info(stock, outcome)
    IN IF got.raised # None
       THEN [raised |-> got.raised, printed |-> <<>>]
       ELSE LET info == got.value[1]
            IN IF info.longName.kind = "absent"
               THEN [raised |-> Some("KeyError: 'longName'"),
                     printed |-> <<PrintedDict(info)>>]
               ELSE LET body == print_stock_info_try(info)
                    IN [raised |-> None,
                        printed |->
                            <<PrintedDict(info),
                              Printed("========== " \o get_str(info.longName)
                                          \o " (" \o Flatten(stock) \o ") ==========")>>
                            \o body.printed
                            \o (IF body.raised THEN <<Printed("No Stock")>> ELSE <<>>)]

\* the symbols given to the console
ConsoleSymbols == {CEU, CCO}

\* one call of print_stock_info
PrintStockInfo ==
    /\ frontend = "console"
    /\ Len(invoked) < MaxCalls
    /\ \E stock \in ConsoleSymbols, outcome \in market :
        /\ provider' = Some(outcome)
        /\ invoked' = Append(invoked, Invocation("get_company_info", stock))
        /\ outbound' = outbound \o get_company_info_requests(stock, outbound)
        /\ stdout' = Some(print_stock_info(stock, outcome))
    /\ UNCHANGED <<network, parseVars, exportVars, frontend, symbol_var, analyze_btn,
                   workers, started, after_queue, widgets, dialogs, web_request,
                   web_response, page, market, fmt_value, fmt_result>>

InitCore ==
    /\ network \in ExportAnswers
    /\ InitNoData
    /\ InitIdle
    /\ market = ProviderOutcomes
    /\ InitNoFront

NextCore ==
    \/ get_all_data
    \/ PrintStockInfo
    \/ \E p \in Threads : SequentialCall(p) \/ Probe(p) \/ Write(p)

SpecCore == InitCore /\ [][NextCore]_vars

\* C11: each call of a core operation sends exactly one request, whatever the
\* outcome: the requests sent are, in order, one lookup of the symbol for each
\* call of get_company_info and one GET for each call of get_all_stock_symbols
\* or get_all_stock (k calls for one symbol give k lookups; nothing is cached,
\* nothing is sent again after a failure).
RequestOf(call) ==
    IF call.op = "get_company_info"
    THEN [op |-> "lookup", symbol |-> call.symbol]
    ELSE [op |-> "GET", symbol |-> <<>>]

C11_OneRequestPerCall ==
    /\ Len(outbound) = Len(invoked)
    /\ \A i \in 1..Len(invoked) : outbound[i] = RequestOf(invoked[i])

C11_Witness ==
    /\ Len(invoked) >= 3
    /\ invoked[1] = Invocation("get_company_info", CEU)
    /\ invoked[2] = Invocation("get_company_info", CEU)
    /\ invoked[3].op = "get_all_stock"
    /\ provider # None
    /\ ~provider[1].ok
    /\ log # <<>>
    /\ log[Len(log)].err = Some("HTTPError")
    /\ Len(outbound) = Len(invoked)

(***************************************************************************)
(* The desktop front end (stock_gui.py): analyze_stock on the UI thread,   *)
(* one worker thread per analysis, callbacks marshalled with root.after.   *)
(***************************************************************************)

\* the numbers of the sample records have no rendering half way between two
\* others
NoHalf == "down"

\* info.get(key, default) inside an f-string
get_or(v, default) ==
    IF v.kind = "absent" THEN default
    ELSE IF v.kind = "none" THEN "None"
    ELSE IF v.kind = "str" THEN v.s
    ELSE IF v.kind = "dict" THEN "{}"
    ELSE Flatten(py_str(v.n))

\* str.upper() on the recommendation keys of the sample records
upper(x) == IF x = "buy" THEN "BUY" ELSE x

\* the value can be sliced ([:500]) / has .upper(): it is a string, or the
\* key is missing and the string default is used
IsStrOrDefault(v) == v.kind \in {"str", "absent"}

\* lines 433-479: the widgets after _update_display, and the exception caught
\* at line 478 (None if none)
\* a variant that keeps the record the text area already shows
update_display_first_wins(w, info, symbol) ==
    IF w.company_text # None
    THEN [widgets |-> w, error |-> None]
    ELSE [widgets |->
              [w EXCEPT
                 !.company_text =
                     Some([name |-> get_or(info.longName, "N/A"),
                           symbol |-> symbol,
                           summary |-> get_or(info.longBusinessSummary,
                                              "No description available")])],
          error |-> None]

update_display(w, info, symbol) ==
    IF ~IsStrOrDefault(info.longBusinessSummary)
    THEN [widgets |-> w, error |-> Some("'NoneType' object is not subscriptable")]
    ELSE LET w1 == [w EXCEPT
                      !.company_text =
                          Some([name |-> get_or(info.longName, "N/A"),
                                symbol |-> symbol,
                                summary |-> get_or(info.longBusinessSummary,
                                                   "No description available")]),
                      !.market_cap_label =
                          Flatten(market_cap_text(info.marketCap, NoHalf))]
         IN IF ~IsStrOrDefault(info.recommendationKey)
            THEN [widgets |-> w1, error |-> Some("'NoneType' object has no attribute 'upper'")]
            ELSE [widgets |->
                      [w1 EXCEPT
                         !.recommendation_label =
                             "Recommendation: "
                                 \o upper(get_or(info.recommendationKey, "N/A")),
                         !.dividend_yield_label =
                             "Dividend Yield: "
                                 \o Flatten(format_percent(info_get(info.dividendYield),
                                                           NoHalf).text)],
                  error |-> None]

showerror(message) == [box |-> "showerror", title |-> "Error", message |-> message]

\* texts the user types into the entry
EntryTexts == {<<>>, <<" ">>, <<" ", "X", "Y", " ">>}

RemoveAt(seq, i) == SubSeq(seq, 1, i - 1) \o SubSeq(seq, i + 1, Len(seq))

\* the user edits the entry
TypeSymbol ==
    /\ frontend = "desktop"
    /\ \E text \in EntryTexts :
        /\ symbol_var # text
        /\ symbol_var' = text
    /\ UNCHANGED <<provider, analyze_btn, workers, started, after_queue, widgets,
                   dialogs, invoked, outbound>>
    /\ UNCHANGED notDesktopVars

\* a variant that tests the entry as it is and passes it on unstripped
analyze_stock_unstripped(text) ==
    IF text = <<>>
    THEN /\ Len(dialogs) < MaxDialogs
         /\ dialogs' = Append(dialogs, showerror("Please enter a stock symbol"))
         /\ UNCHANGED <<analyze_btn, workers, started>>
    ELSE /\ started < MaxAnalyses
         /\ analyze_btn' = "disabled"
         /\ workers' = Append(workers, [symbol |-> text])
         /\ started' = started + 1
         /\ UNCHANGED dialogs

\* lines 381-392: analyze_stock with the entry holding `text`
analyze_stock(text) ==
    LET symbol == strip(text)
    IN IF symbol = <<>>
       THEN /\ Len(dialogs) < MaxDialogs
            /\ dialogs' = Append(dialogs, showerror("Please enter a stock symbol"))
            /\ UNCHANGED <<analyze_btn, workers, started>>
       ELSE /\ started < MaxAnalyses
            /\ analyze_btn' = "disabled"
            /\ workers' = Append(workers, [symbol |-> symbol])
            /\ started' = started + 1
            /\ UNCHANGED dialogs

\* a click on the analyze button (a disabled button takes no click)
ClickAnalyze ==
    /\ frontend = "desktop"
    /\ analyze_btn = "normal"
    /\ analyze_stock(symbol_var)
    /\ UNCHANGED <<provider, symbol_var, after_queue, widgets, invoked, outbound>>
    /\ UNCHANGED notDesktopVars

\* lines 357-367: a click on a quick access button
quick_analyze ==
    /\ frontend = "desktop"
    /\ \E i \in DOMAIN quick_stocks :
        /\ symbol_var' = quick_stocks[i]
        /\ analyze_stock(quick_stocks[i])
    /\ UNCHANGED <<provider, after_queue, widgets, invoked, outbound>>
    /\ UNCHANGED notDesktopVars

\* a variant in which the worker thread updates the widgets itself
analyze_stock_thread_direct ==
    /\ frontend = "desktop"
    /\ \E i \in DOMAIN workers, outcome \in market :
        LET symbol == workers[i].symbol
            got == get_company_info(symbol, outcome)
        IN /\ provider' = Some(outcome)
           /\ invoked' = Append(invoked, Invocation("get_company_info", symbol))
           /\ outbound' = outbound \o get_company_info_requests(symbol, outbound)
           /\ workers' = RemoveAt(workers, i)
           /\ IF got.raised = None
              THEN /\ widgets' = update_display(widgets, got.value[1], symbol).widgets
                   /\ UNCHANGED dialogs
              ELSE /\ dialogs' = Append(dialogs,
                                        showerror("Failed to analyze stock: "
                                                  \o got.raised[1]))
                   /\ UNCHANGED widgets
           /\ analyze_btn' = "normal"
    /\ UNCHANGED <<symbol_var, started, after_queue>>
    /\ UNCHANGED notDesktopVars

\* lines 407-412: a worker thread fetches and schedules the callback
analyze_stock_thread ==
    /\ frontend = "desktop"
    /\ \E i \in DOMAIN workers, outcome \in market :
        LET symbol == workers[i].symbol
            got == get_company_info(symbol, outcome)
        IN /\ provider' = Some(outcome)
           /\ invoked' = Append(invoked, Invocation("get_company_info", symbol))
           /\ outbound' = outbound \o get_company_info_requests(symbol, outbound)
           /\ workers' = RemoveAt(workers, i)
           /\ after_queue' =
                  Append(after_queue,
                         IF got.raised = None
                         THEN [fn |-> "_update_display", info |-> got.value,
                               symbol |-> Some(symbol), error_msg |-> None]
                         ELSE [fn |-> "_show_error", info |-> None,
                               symbol |-> None, error_msg |-> got.raised])
    /\ UNCHANGED <<symbol_var, analyze_btn, started, widgets, dialogs>>
    /\ UNCHANGED notDesktopVars

\* a variant of the callbacks that puts the button back only when no worker
\* thread is left
RunCallbackCounting ==
    /\ frontend = "desktop"
    /\ after_queue # <<>>
    /\ LET cb == Head(after_queue)
       IN IF cb.fn = "_update_display"
          THEN LET shown == update_display(widgets, cb.info[1], cb.symbol[1])
               IN /\ widgets' = shown.widgets
                  /\ dialogs' =
                         IF shown.error # None
                         THEN Append(dialogs,
                                     showerror("Failed to analyze stock: "
                                               \o "Error updating display: "
                                               \o shown.error[1]))
                         ELSE dialogs
          ELSE /\ dialogs' = Append(dialogs,
                                    showerror("Failed to analyze stock: "
                                              \o cb.error_msg[1]))
               /\ UNCHANGED widgets
    /\ after_queue' = Tail(after_queue)
    /\ analyze_btn' = IF workers = <<>> /\ Len(after_queue) = 1
                      THEN "normal" ELSE analyze_btn
    /\ UNCHANGED <<provider, symbol_var, workers, started, invoked, outbound>>
    /\ UNCHANGED notDesktopVars

\* a variant of the callbacks in which _update_display has no finally clause
\* and its except clause only shows the dialog
RunCallbackNoFinally ==
    /\ frontend = "desktop"
    /\ after_queue # <<>>
    /\ LET cb == Head(after_queue)
       IN IF cb.fn = "_update_display"
          THEN LET shown == update_display(widgets, cb.info[1], cb.symbol[1])
               IN /\ widgets' = shown.widgets
                  /\ dialogs' =
                         IF shown.error # None
                         THEN Append(dialogs,
                                     showerror("Failed to analyze stock: "
                                               \o "Error updating display: "
                                               \o shown.error[1]))
                         ELSE dialogs
                  /\ analyze_btn' = IF shown.error # None THEN analyze_btn ELSE "normal"
          ELSE /\ dialogs' = Append(dialogs,
                                    showerror("Failed to analyze stock: "
                                              \o cb.error_msg[1]))
               /\ analyze_btn' = "normal"
               /\ UNCHANGED widgets
    /\ after_queue' = Tail(after_queue)
    /\ UNCHANGED <<provider, symbol_var, workers, started, invoked, outbound>>
    /\ UNCHANGED notDesktopVars

\* the UI thread runs the oldest scheduled callback: _update_display
\* (lines 433-482) or _show_error (lines 575-576)
RunCallback ==
    /\ frontend = "desktop"
    /\ after_queue # <<>>
    /\ LET cb == Head(after_queue)
       IN IF cb.fn = "_update_display"
          THEN LET shown == update_display(widgets, cb.info[1], cb.symbol[1])
               IN /\ widgets' = shown.widgets
                  /\ dialogs' =
                         IF shown.error # None
                         THEN Append(dialogs,
                                     showerror("Failed to analyze stock: "
                                               \o "Error updating display: "
                                               \o shown.error[1]))
                         ELSE dialogs
          ELSE /\ dialogs' = Append(dialogs,
                                    showerror("Failed to analyze stock: "
                                              \o cb.error_msg[1]))
               /\ UNCHANGED widgets
    /\ after_queue' = Tail(after_queue)
    /\ analyze_btn' = "normal"
    /\ UNCHANGED <<provider, symbol_var, workers, started, invoked, outbound>>
    /\ UNCHANGED notDesktopVars

(***************************************************************************)
(* The web front end (stock_web_gui.py): the /analyze/ endpoint.           *)
(***************************************************************************)
PostedSymbols == {<<>>, <<" ">>, CEU, <<" ", "X", "Y", " ">>}

WebRequests == [method : {"GET", "POST"}, symbol : PostedSymbols]

\* the request reaches the lookup: a POST with a non-blank symbol
ReachesLookup(request) == request.method = "POST" /\ strip(request.symbol) # <<>>

\* lines 580-605: the JSON answer of analyze_stock(request)
analyze_stock_view(request, outcome) ==
    IF request.method = "POST"
    THEN LET symbol == strip(request.symbol)
         IN IF symbol = <<>>
            THEN [success |-> FALSE, error |-> "Please provide a stock symbol"]
            ELSE LET got == get_company_info(symbol, outcome)
                 IN IF got.raised = None
                    THEN [success |-> TRUE, info |-> got.value[1], symbol |-> symbol]
                    ELSE [success |-> FALSE, error |-> got.raised[1]]
    ELSE [success |-> FALSE, error |-> "Invalid request method"]

\* one request to /analyze/
WebAnalyze ==
    /\ frontend = "web"
    /\ \E request \in WebRequests, outcome \in market :
        /\ ReachesLookup(request) => Len(outbound) < MaxAnalyses
        /\ web_request' = Some(request)
        /\ provider' = IF ReachesLookup(request) THEN Some(outcome) ELSE None
        /\ invoked' =
               IF ReachesLookup(request)
               THEN Append(invoked,
                           Invocation("get_company_info", strip(request.symbol)))
               ELSE invoked
        /\ outbound' =
               IF ReachesLookup(request)
               THEN outbound \o get_company_info_requests(strip(request.symbol),
                                                          outbound)
               ELSE outbound
        /\ web_response' = Some(analyze_stock_view(request, outcome))
    /\ UNCHANGED notWebVars

(***************************************************************************)
(* The page of the web front end (the script of stock_web_gui.py): the     *)
(* success handler of analyzeStock, updateDisplay and its formatters.      *)
(***************************************************************************)
\* !value
js_falsy(v) ==
    \/ v.kind \in {"absent", "none"}
    \/ v.kind = "str" /\ v.s = ""
    \/ v.kind = "num" /\ v.n.int = <<>> /\ AllZero(v.n.frac)

\* value || fallback, for a text field
js_or(v, fallback) == IF js_falsy(v) THEN fallback ELSE get_or(v, fallback)

\* formatNumber: null (None) for a falsy value; toFixed, which a value that is
\* not a number does not have, raises
formatNumber(v, half) ==
    IF js_falsy(v) THEN [raised |-> FALSE, text |-> None]
    ELSE IF v.kind # "num" THEN [raised |-> TRUE, text |-> None]
    ELSE IF ge_pow10(v.n, 9)
         THEN [raised |-> FALSE,
               text |-> Some(<<"$">> \o format_f2(div_pow10(v.n, 9), half) \o <<"B">>)]
    ELSE IF ge_pow10(v.n, 6)
         THEN [raised |-> FALSE,
               text |-> Some(<<"$">> \o format_f2(div_pow10(v.n, 6), half) \o <<"M">>)]
    ELSE IF ge_pow10(v.n, 3)
         THEN [raised |-> FALSE,
               text |-> Some(<<"$">> \o format_f2(div_pow10(v.n, 3), half) \o <<"K">>)]
    ELSE [raised |-> FALSE, text |-> Some(<<"$">> \o format_f2(v.n, half))]

\* formatPercent
formatPercent(v, half) ==
    IF js_falsy(v) THEN [raised |-> FALSE, text |-> None]
    ELSE IF v.kind # "num" THEN [raised |-> TRUE, text |-> None]
    ELSE [raised |-> FALSE,
          text |-> Some(format_f2(mul_100(v.n), half) \o <<"%">>)]

\* formatX(value) || 'N/A'
or_NA(r) == IF r.text = None THEN "N/A" ELSE Flatten(r.text[1])

\* lines 434-476: the page after updateDisplay, and the exception it throws
\* (None if none)
updateDisplay(pg, info, symbol) ==
    IF ~js_falsy(info.longBusinessSummary) /\ info.longBusinessSummary.kind # "str"
    THEN [page |-> pg, thrown |-> Some("substring is not a function")]
    ELSE LET p1 == [pg EXCEPT
                      !.companyInfo =
                          Some([name |-> js_or(info.longName, "N/A"),
                                symbol |-> symbol,
                                summary |-> js_or(info.longBusinessSummary,
                                                  "No description available")])]
             cap == formatNumber(info.marketCap, NoHalf)
         IN IF cap.raised
            THEN [page |-> p1, thrown |-> Some("toFixed is not a function")]
            ELSE LET p2 == [p1 EXCEPT !.marketCap = or_NA(cap)]
                 IN IF ~js_falsy(info.recommendationKey)
                       /\ info.recommendationKey.kind # "str"
                    THEN [page |-> p2,
                          thrown |-> Some("toUpperCase is not a function")]
                    ELSE LET p3 == [p2 EXCEPT
                                      !.recommendation =
                                          upper(js_or(info.recommendationKey, "N/A"))]
                             yield == formatPercent(info.dividendYield, NoHalf)
                         IN IF yield.raised
                            THEN [page |-> p3,
                                  thrown |-> Some("toFixed is not a function")]
                            ELSE [page |-> [p3 EXCEPT !.dividendYield = or_NA(yield)],
                                  thrown |-> None]

\* lines 367-377: the success handler of the request, run on the answer
AjaxSuccess ==
    /\ frontend = "web"
    /\ web_response # None
    /\ web_request # None
    /\ ReachesLookup(web_request[1])
    /\ LET data == web_response[1]
       IN IF data.success
          THEN LET shown == updateDisplay(page, data.info, strip(web_request[1].symbol))
               IN page' =
                      IF shown.thrown # None
                      THEN [shown.page EXCEPT !.uncaught = shown.thrown]
                      ELSE [shown.page EXCEPT
                              !.messages = "Analysis completed successfully!"]
          ELSE page' = [page EXCEPT !.messages = "Error: " \o data.error]
    /\ UNCHANGED <<frontend, symbol_var, analyze_btn, workers, started, after_queue,
                   widgets, dialogs, stdout, market, fmt_value, fmt_result,
                   network, parseVars, exportVars, provider, web_request,
                   web_response, invoked, outbound>>

InitFrontEnds ==
    /\ network = TransportFailure
    /\ \E i \in Infos : market = {Found(i), LookupError("HTTP Error 404")}
    /\ InitNoData
    /\ InitIdle
    /\ \E program \in {"desktop", "web"} : InitFront(program)

NextFront ==
    \/ TypeSymbol
    \/ ClickAnalyze
    \/ quick_analyze
    \/ analyze_stock_thread
    \/ RunCallback
    \/ WebAnalyze
    \/ AjaxSuccess

SpecFront == InitFrontEnds /\ [][NextFront]_vars

(***************************************************************************)
(* The three consumers of a company info record, each on a provider that   *)
(* answers with one record out of AllInfos.                                *)
(***************************************************************************)
InitDisplay ==
    /\ network = TransportFailure
    /\ market \in {{Found(i)} : i \in AllInfos}
    /\ InitNoData
    /\ InitIdle
    /\ \E program \in {"desktop", "web", "console"} : InitFront(program)

NextDisplay ==
    \/ ClickAnalyze
    \/ analyze_stock_thread
    \/ RunCallback
    \/ WebAnalyze
    \/ AjaxSuccess
    \/ PrintStockInfo

SpecDisplay == InitDisplay /\ [][NextDisplay]_vars

(***************************************************************************)
(* Claims about the record a lookup returns and its display (SpecDisplay). *)
(***************************************************************************)

\* the provider answered the last lookup with a record
LookupAnswered == provider # None /\ provider[1].ok

ProviderRecord == provider[1].info[1]

\* a worker thread finishes in this step with a record from the provider
WorkerLookupAnswered ==
    /\ frontend = "desktop"
    /\ Len(workers') = Len(workers) - 1
    /\ provider' # None
    /\ provider'[1].ok

\* what each caller holds after a lookup that the provider answered is the
\* provider's record itself
CallerHoldsProviderRecord ==
    /\ (frontend = "console" /\ LookupAnswered /\ stdout # None) =>
           /\ stdout[1].printed # <<>>
           /\ stdout[1].printed[1].dict = Some(ProviderRecord)
           /\ DOMAIN stdout[1].printed[1].dict[1] = DOMAIN ProviderRecord
    /\ (frontend = "web" /\ LookupAnswered) =>
           /\ web_response # None
           /\ web_response[1].success
           /\ web_response[1].info = ProviderRecord
           /\ DOMAIN web_response[1].info = DOMAIN ProviderRecord

WorkerPassesProviderRecord ==
    WorkerLookupAnswered =>
        /\ Len(after_queue') = Len(after_queue) + 1
        /\ after_queue'[Len(after_queue')].fn = "_update_display"
        /\ after_queue'[Len(after_queue')].info = provider'[1].info

\* C12: get_company_info returns exactly the mapping the provider returned,
\* no field added, removed, renamed or altered; an empty or partial mapping is
\* returned as it is and no error is raised.
C12_ReturnsProviderMapping ==
    []CallerHoldsProviderRecord /\ [][WorkerPassesProviderRecord]_vars

C12_Witness ==
    /\ frontend = "web"
    /\ LookupAnswered
    /\ web_response[1].success
    /\ web_response[1].info.longName = Absent
    /\ web_response[1].info.dividendYield = Absent
    /\ web_response[1].info.marketCap = FullInfo.marketCap
    /\ web_response[1].info.recommendationKey = PyNone

Missing(v) == v.kind \in {"absent", "none"}

\* the record every lookup of the run is answered with
DisplayedRecord == (CHOOSE outcome \in market : outcome.ok).info[1]

\* the desktop display has been updated without an error dialog, and shows a
\* placeholder for each missing field
DesktopDisplayComplete ==
    /\ \A i \in 1..Len(dialogs) : dialogs[i].box # "showerror"
    /\ widgets # InitialWidgets =>
           /\ widgets.company_text # None
           /\ widgets.market_cap_label # InitialWidgets.market_cap_label
           /\ widgets.recommendation_label # InitialWidgets.recommendation_label
           /\ widgets.dividend_yield_label # InitialWidgets.dividend_yield_label
           /\ Missing(DisplayedRecord.longName) => widgets.company_text[1].name = "N/A"
           /\ Missing(DisplayedRecord.longBusinessSummary) =>
                  widgets.company_text[1].summary = "No description available"
           /\ Missing(DisplayedRecord.marketCap) =>
                  widgets.market_cap_label = "Market Cap: N/A"
           /\ Missing(DisplayedRecord.recommendationKey) =>
                  widgets.recommendation_label = "Recommendation: N/A"
           /\ Missing(DisplayedRecord.dividendYield) =>
                  widgets.dividend_yield_label = "Dividend Yield: N/A"

\* the same for the page of the web front end
WebDisplayComplete ==
    /\ page.uncaught = None
    /\ page.messages \in {"", "Analysis completed successfully!"}
    /\ page # InitialPage =>
           /\ page.companyInfo # None
           /\ page.marketCap # InitialPage.marketCap
           /\ page.recommendation # InitialPage.recommendation
           /\ page.dividendYield # InitialPage.dividendYield
           /\ Missing(DisplayedRecord.longName) => page.companyInfo[1].name = "N/A"
           /\ Missing(DisplayedRecord.longBusinessSummary) =>
                  page.companyInfo[1].summary = "No description available"
           /\ Missing(DisplayedRecord.marketCap) => page.marketCap = "N/A"
           /\ Missing(DisplayedRecord.recommendationKey) => page.recommendation = "N/A"
           /\ Missing(DisplayedRecord.dividendYield) => page.dividendYield = "N/A"

\* print_stock_info has printed the record, the heading and the line of every
\* field, without an exception and without its error message
ConsoleDisplayComplete ==
    stdout # None =>
        /\ stdout[1].raised = None
        /\ \A i \in 1..Len(stdout[1].printed) : stdout[1].printed[i].text # "No Stock"
        /\ \E i \in 1..Len(stdout[1].printed) :
               stdout[1].printed[i].text
                   = "Recommendation: " \o get_str(DisplayedRecord.recommendationKey)

\* C13: whatever subset of the fields of the record is missing or None, the
\* desktop _update_display, the web updateDisplay and the console
\* print_stock_info complete the display, with a placeholder for each missing
\* field, and neither raise nor show an error.
C13_EveryFieldOptional ==
    /\ frontend = "desktop" => DesktopDisplayComplete
    /\ frontend = "web" => WebDisplayComplete
    /\ frontend = "console" => ConsoleDisplayComplete

(***************************************************************************)
(* Claims about a failing provider lookup (checked under SpecFront).       *)
(***************************************************************************)

\* a worker thread finishes in this step and its lookup raised
WorkerLookupFailed ==
    /\ frontend = "desktop"
    /\ Len(workers') = Len(workers) - 1
    /\ provider' # None
    /\ ~provider'[1].ok

\* the UI thread runs a scheduled _show_error in this step
ErrorCallbackRuns ==
    /\ frontend = "desktop"
    /\ after_queue # <<>>
    /\ after_queue' = Tail(after_queue)
    /\ Head(after_queue).fn = "_show_error"

\* desktop: a failed lookup schedules one _show_error carrying no record and
\* touches neither widgets nor dialogs; running it shows exactly one error
\* dialog and touches no widget; widgets change only when an _update_display
\* callback runs, and such a callback always carries a record that a lookup
\* returned
DesktopFailureStep ==
    /\ WorkerLookupFailed =>
           /\ Len(after_queue') = Len(after_queue) + 1
           /\ SubSeq(after_queue', 1, Len(after_queue)) = after_queue
           /\ after_queue'[Len(after_queue')].fn = "_show_error"
           /\ after_queue'[Len(after_queue')].info = None
           /\ after_queue'[Len(after_queue')].error_msg = Some(provider'[1].msg)
           /\ widgets' = widgets
           /\ dialogs' = dialogs
    /\ ErrorCallbackRuns =>
           /\ widgets' = widgets
           /\ Len(dialogs') = Len(dialogs) + 1
           /\ SubSeq(dialogs', 1, Len(dialogs)) = dialogs
           /\ dialogs'[Len(dialogs')].message
                  = "Failed to analyze stock: " \o Head(after_queue).error_msg[1]
    /\ widgets' # widgets =>
           /\ after_queue # <<>>
           /\ Head(after_queue).fn = "_update_display"
           /\ Head(after_queue).info # None

\* web: the answer to a request whose lookup raised is success=false with the
\* error text, and has no 'info' field
WebFailureAnswer ==
    (frontend = "web" /\ provider # None /\ ~provider[1].ok) =>
        /\ web_response # None
        /\ DOMAIN web_response[1] = {"success", "error"}
        /\ web_response[1].success = FALSE
        /\ web_response[1].error = provider[1].msg

\* C10: when the provider lookup fails, the caller observes exactly one error
\* and no company info record: the desktop front end shows one error dialog
\* and updates no display widget, the web front end answers success=false
\* without an 'info' field.
C10_LookupFailureOneError == []WebFailureAnswer /\ [][DesktopFailureStep]_vars

C10_Witness ==
    /\ frontend = "desktop"
    /\ provider # None
    /\ ~provider[1].ok
    /\ after_queue = <<>>
    /\ workers = <<>>
    /\ Len(dialogs) = 1
    /\ dialogs[1].message = "Failed to analyze stock: HTTP Error 404"
    /\ widgets = InitialWidgets
    /\ analyze_btn = "normal"

(***************************************************************************)
(* get_all_stock called from several threads at once: the threads of the   *)
(* web server share stock_handler_instance and the working directory, and  *)
(* nothing orders the probe of one call against the write of another.      *)
(***************************************************************************)

\* directories the concurrent calls start in
ConcurrentStartNames == {base_filename, "tsx_symbols_01.xlsx"}

InitConcurrent ==
    /\ network = TransportFailure
    /\ InitNoData
    /\ \E names \in SUBSET ConcurrentStartNames :
        /\ dir0 = [n \in names |-> OldExport]
        /\ files = dir0
    /\ disk = "none"
    /\ pc = [p \in Threads |-> "idle"]
    /\ symbols = [p \in Threads |-> <<>>]
    /\ filename = [p \in Threads |-> ""]
    /\ counter = [p \in Threads |-> 0]
    /\ before = dir0
    /\ log = <<>>
    /\ market = ProviderOutcomes
    /\ InitFront("web")

\* a call is entered whether or not another is running
NextConcurrent == \E p \in Threads : Call(p) \/ Probe(p) \/ Write(p)

SpecConcurrent == InitConcurrent /\ [][NextConcurrent]_vars

\* the step in which the call of thread p returns a filename
ReturningWrite(p) ==
    /\ pc[p] = "write"
    /\ pc'[p] = "idle"
    /\ Len(log') = Len(log) + 1
    /\ log'[Len(log')].ret # None

\* the name thread p is about to write has been returned by an earlier call
AlreadyExported(p) == \E i \in 1..Len(log) : log[i].ret = Some(filename[p])

\* a call that writes under a name an earlier call has returned returns that
\* same name, and leaves under it its own rows in place of the earlier export
LaterWriteReplaces ==
    \A p \in Threads :
        (ReturningWrite(p) /\ AlreadyExported(p)) =>
            /\ log'[Len(log')].ret = Some(filename[p])
            /\ filename[p] \in DOMAIN files
            /\ files'[filename[p]] = [columns |-> <<"Symbol">>, rows |-> symbols[p]]
            /\ DOMAIN files' = DOMAIN files

\* a call about to write has seen its name free, yet the name may exist by
\* now; it exists only if another call has written it since that probe
ProbedNameTakenOnlyByOverlap ==
    \A p \in Threads :
        (pc[p] = "write" /\ filename[p] \in DOMAIN files) =>
            /\ filename[p] \notin DOMAIN dir0
            /\ \E i \in 1..Len(log) :
                   log[i] \in {[ret |-> Some(filename[p]), err |-> None],
                               [ret |-> None, err |-> Some("IOError")]}

\* C20: the probe and the write of get_all_stock are not atomic: calls that
\* overlap can both find the same name free and both return it, and then the
\* later write replaces the earlier export, so that two exports leave one file.
C20_ProbeWriteRace == []ProbedNameTakenOnlyByOverlap /\ [][LaterWriteReplaces]_vars

C20_Witness ==
    /\ DOMAIN dir0 = {}
    /\ AllIdle
    /\ Len(log) = 2
    /\ log[1] = [ret |-> Some("tsx_symbols.xlsx"), err |-> None]
    /\ log[2] = [ret |-> Some("tsx_symbols.xlsx"), err |-> None]
    /\ DOMAIN files = {"tsx_symbols.xlsx"}
    /\ files["tsx_symbols.xlsx"].columns = <<"Symbol">>

(***************************************************************************)
(* The formatters of the page next to those of the desktop window: what    *)
(* updateDisplay puts into an element for one value (lines 447-475), and   *)
(* what _update_display puts after the caption of a label (lines 449-472). *)
(***************************************************************************)
\* formatPrice (lines 512-515)
formatPrice(v, half) ==
    IF js_falsy(v) THEN [raised |-> FALSE, text |-> None]
    ELSE IF v.kind # "num" THEN [raised |-> TRUE, text |-> None]
    ELSE [raised |-> FALSE, text |-> Some(format_f2(v.n, half))]

\* formatRatio (lines 524-527)
formatRatio(v, half) ==
    IF js_falsy(v) THEN [raised |-> FALSE, text |-> None]
    ELSE IF v.kind # "num" THEN [raised |-> TRUE, text |-> None]
    ELSE [raised |-> FALSE, text |-> Some(format_f2(v.n, half))]

\* prefix + (formatX(value) || 'N/A'), as the characters put into the element
element_text(prefix, r) ==
    IF r.raised THEN Raises
    ELSE Returns(prefix \o (IF r.text = None THEN NA ELSE r.text[1]))

\* f"...: {prefix}{self._format_x(value)}", without the caption
label_text(prefix, r) ==
    IF r.raised THEN Raises ELSE Returns(prefix \o r.text)

\* one line of updateDisplay: the text of #marketCap, #currentPrice, #peRatio
\* or #roe for a record whose field holds the value
SetElementText ==
    /\ fmt_result = None
    /\ \E half \in Halves :
        \/ fmt_result' = Called("#marketCap", half,
                                element_text(<<>>, formatNumber(fmt_value, half)))
        \/ fmt_result' = Called("#currentPrice", half,
                                element_text(<<"$">>, formatPrice(fmt_value, half)))
        \/ fmt_result' = Called("#peRatio", half,
                                element_text(<<>>, formatRatio(fmt_value, half)))
        \/ fmt_result' = Called("#roe", half,
                                element_text(<<>>, formatPercent(fmt_value, half)))
    /\ UNCHANGED <<fmt_value, network, parseVars, exportVars, frontend, provider,
                   symbol_var, analyze_btn, workers, started, after_queue, widgets,
                   dialogs, web_request, web_response, page, stdout, invoked,
                   outbound, market>>

\* the text the desktop window shows for the same value in the label that
\* corresponds to the element
desktop_text(element, v, half) ==
    IF element = "#marketCap" THEN label_text(<<>>, format_number(info_get(v), half))
    ELSE IF element = "#currentPrice"
         THEN label_text(<<"$">>, format_price(info_get(v), half))
    ELSE IF element = "#peRatio" THEN label_text(<<>>, format_ratio(info_get(v), half))
    ELSE label_text(<<>>, format_percent(info_get(v), half))

NextBothFormat == NextFormat \/ SetElementText

SpecBothFormat == InitFormat /\ [][NextBothFormat]_vars

Elements == {"#marketCap", "#currentPrice", "#peRatio", "#roe"}

\* C21: for an absent value and for every number, the text the page shows
\* (formatNumber / formatPrice / formatRatio / formatPercent with the
\* caller's 'N/A' fallback and '$' prefix) equals the text the desktop window
\* shows for it (_format_number / _format_price / _format_ratio /
\* _format_percent).
C21_SameTextInBothFrontEnds ==
    (/\ fmt_result # None
     /\ fmt_result[1].fn \in Elements
     /\ fmt_value.kind \in {"none", "num"}) =>
        /\ ~fmt_result[1].raised
        /\ fmt_result[1].text =
               desktop_text(fmt_result[1].fn, fmt_value, fmt_result[1].half).text

(***************************************************************************)
(* Claims about the threads of the desktop front end (SpecFront).          *)
(***************************************************************************)

\* analyses started whose result or error has not been handled yet
InFlight == Len(workers) + Len(after_queue)

\* a step that starts an analysis
StartsAnalysis == Len(workers') = Len(workers) + 1

\* no step starts an analysis while another is in flight
NoSecondStart == (frontend = "desktop" /\ InFlight >= 1) => ~StartsAnalysis

AtMostOneWorker == frontend = "desktop" => Len(workers) <= 1

\* C22: from the start of an analysis until its result or error has been
\* handled on the UI thread no UI action (analyze button, quick access
\* buttons) starts a second one, so at most one worker thread is in flight.
C22_OneAnalysisAtATime == []AtMostOneWorker /\ [][NoSecondStart]_vars

\* a step of a worker thread: its fetch ends and the thread with it
WorkerStep == frontend = "desktop" /\ Len(workers') < Len(workers)

\* a step that mutates a widget after a fetch: the text area or a label, an
\* error dialog of an analysis, or the analyze button put back to normal
MutatesWidgets ==
    /\ frontend = "desktop"
    /\ \/ widgets' # widgets
       \/ analyze_btn = "disabled" /\ analyze_btn' = "normal"
       \/ /\ Len(dialogs') > Len(dialogs)
          /\ dialogs'[Len(dialogs')].message # "Please enter a stock symbol"

\* the worker only fetches and schedules: one lookup, one callback that
\* carries the outcome of that lookup, and no widget touched
WorkerOnlySchedules ==
    WorkerStep =>
        /\ ~MutatesWidgets
        /\ dialogs' = dialogs
        /\ analyze_btn' = analyze_btn
        /\ Len(invoked') = Len(invoked) + 1
        /\ provider' # None
        /\ Len(after_queue') = Len(after_queue) + 1
        /\ SubSeq(after_queue', 1, Len(after_queue)) = after_queue
        /\ LET cb == after_queue'[Len(after_queue')]
           IN IF provider'[1].ok
              THEN cb.fn = "_update_display" /\ cb.info = provider'[1].info
              ELSE cb.fn = "_show_error" /\ cb.error_msg = Some(provider'[1].msg)

\* the lookup is made by worker steps only, and callbacks are scheduled by
\* worker steps only
FetchOnlyOnWorker ==
    (frontend = "desktop" /\ (invoked' # invoked \/ Len(after_queue') > Len(after_queue)))
        => WorkerStep

\* widgets are mutated only by the UI thread running the oldest scheduled
\* callback
MutationOnlyInCallback ==
    MutatesWidgets =>
        /\ after_queue # <<>>
        /\ after_queue' = Tail(after_queue)
        /\ workers' = workers
        /\ invoked' = invoked

\* C23: the worker thread never mutates widget state: the fetch runs only on
\* the worker, and every widget mutation that follows it (text area, labels,
\* error dialog, re-enabling the button) runs on the UI thread in a callback
\* the worker scheduled after the fetch returned or raised.
C23_WidgetsOnlyOnUIThread ==
    [][WorkerOnlySchedules /\ FetchOnlyOnWorker /\ MutationOnlyInCallback]_vars

C23_Witness ==
    /\ frontend = "desktop"
    /\ started = 2
    /\ workers = <<>>
    /\ after_queue = <<>>
    /\ Len(invoked) = 2
    /\ widgets.company_text # None
    /\ Len(dialogs) = 1
    /\ dialogs[1].message = "Failed to analyze stock: HTTP Error 404"
    /\ analyze_btn = "normal"

(***************************************************************************)
(* The desktop window with its event loop running: a callback scheduled    *)
(* with root.after(0, ...) is run by the loop; nothing bounds the time a   *)
(* fetch takes, so no fairness is asked of the worker threads.             *)
(***************************************************************************)
InitLive ==
    /\ network = TransportFailure
    /\ market = {Found(EmptyInfo),
                 Found([EmptyInfo EXCEPT !.longBusinessSummary = PyNone]),
                 LookupError("HTTP Error 404")}
    /\ InitNoData
    /\ InitIdle
    /\ InitFront("desktop")

NextLive == ClickAnalyze \/ quick_analyze \/ analyze_stock_thread \/ RunCallback

SpecLive == InitLive /\ [][NextLive]_vars /\ WF_vars(RunCallback)

\* analyses whose result or error has been handled on the UI thread
Handled == started - Len(workers) - Len(after_queue)

\* a step in which the UI thread handles a result or an error
HandlesOne == Len(after_queue') < Len(after_queue)

\* whichever callback runs and however it ends, it leaves the button enabled
CallbackEnables == HandlesOne => analyze_btn' = "normal"

\* nothing but a callback puts the button back: there is no timeout
OnlyCallbackEnables ==
    (analyze_btn = "disabled" /\ analyze_btn' = "normal") => HandlesOne

\* the button is disabled only while an analysis is in flight
DisabledOnlyInFlight == analyze_btn = "disabled" => InFlight >= 1

\* the fetches that have returned or raised are handled, oldest first, and
\* the button is enabled when they have been
ReturnedFetchHandled ==
    (after_queue # <<>>) ~> (after_queue = <<>> /\ Handled >= 1 /\ analyze_btn = "normal")

\* C24: every started analysis whose fetch returns or raises eventually
\* leaves the analyze button enabled again, on all three paths (display
\* updated, fetch error, exception while updating the display); the button
\* stays disabled only while a fetch has not returned.
C24_ButtonEnabledAgain ==
    /\ []DisabledOnlyInFlight
    /\ [][CallbackEnables /\ OnlyCallbackEnables]_vars
    /\ ReturnedFetchHandled

C24_Witness ==
    /\ started = 1
    /\ Handled = 1
    /\ analyze_btn = "normal"
    /\ widgets.company_text = None
    /\ Len(dialogs) = 1
    /\ dialogs[1].message =
           "Failed to analyze stock: Error updating display: "
               \o "'NoneType' object is not subscriptable"

(***************************************************************************)
(* Claims about the symbol the front ends pass to the lookup (SpecFront).  *)
(***************************************************************************)

\* nothing but white space
Blank(text) == \A i \in DOMAIN text : text[i] \in {" ", "\t", "\n", "\r"}

\* `symbol` is `text` without its leading and trailing white space
StrippedFrom(symbol, text) ==
    /\ symbol # <<>>
    /\ ~Blank(<<symbol[1]>>)
    /\ ~Blank(<<symbol[Len(symbol)]>>)
    /\ \E i \in 1..Len(text) :
           /\ i + Len(symbol) - 1 <= Len(text)
           /\ SubSeq(text, i, i + Len(symbol) - 1) = symbol
           /\ Blank(SubSeq(text, 1, i - 1))
           /\ Blank(SubSeq(text, i + Len(symbol), Len(text)))

\* the dialog of analyze_stock for an entry without a symbol
BlankEntryDialog ==
    /\ Len(dialogs') = Len(dialogs) + 1
    /\ dialogs'[Len(dialogs')].message = "Please enter a stock symbol"

\* desktop: a step of analyze_stock either starts one worker, with the
\* stripped entry, or (the entry being blank) shows the dialog, starts no
\* worker, makes no lookup and leaves the button enabled
DesktopSymbolStep ==
    frontend = "desktop" =>
        /\ StartsAnalysis =>
               StrippedFrom(workers'[Len(workers')].symbol, symbol_var')
        /\ BlankEntryDialog =>
               /\ Blank(symbol_var)
               /\ workers' = workers
               /\ invoked' = invoked
               /\ after_queue' = after_queue
               /\ analyze_btn' = "normal"
        /\ (Blank(symbol_var') /\ symbol_var' = symbol_var) =>
               (workers' = workers \/ Len(workers') < Len(workers))
        /\ Len(invoked') > Len(invoked) =>
               \E i \in DOMAIN workers :
                   invoked'[Len(invoked')].symbol = workers[i].symbol

\* web: a request is answered without a lookup if its symbol is blank, and
\* the lookup is made with the stripped symbol otherwise
WebSymbolStep ==
    (frontend = "web" /\ web_request' # None /\ web_request'[1].method = "POST"
                      /\ (web_response' # web_response \/ invoked' # invoked
                            \/ web_request' # web_request)) =>
        IF Blank(web_request'[1].symbol)
        THEN /\ invoked' = invoked
             /\ outbound' = outbound
             /\ web_response' =
                    Some([success |-> FALSE, error |-> "Please provide a stock symbol"])
        ELSE /\ Len(invoked') = Len(invoked) + 1
             /\ StrippedFrom(invoked'[Len(invoked')].symbol, web_request'[1].symbol)

\* the provider is never asked for a blank or unstripped symbol
LookupsStripped ==
    \A i \in DOMAIN invoked :
        invoked[i].op = "get_company_info" =>
            StrippedFrom(invoked[i].symbol, invoked[i].symbol)

\* C25: an empty or whitespace-only symbol never reaches the provider: the
\* desktop analyze_stock shows an error, starts no worker and leaves the
\* button enabled; the web endpoint answers success=false with 'Please
\* provide a stock symbol' without a lookup; and the symbol either front end
\* passes to the lookup is the input stripped of white space at both ends.
C25_BlankSymbolStopsEarly ==
    []LookupsStripped /\ [][DesktopSymbolStep /\ WebSymbolStep]_vars

C25_Witness ==
    /\ frontend = "desktop"
    /\ Len(dialogs) >= 1
    /\ dialogs[1].message = "Please enter a stock symbol"
    /\ Len(invoked) = 1
    /\ invoked[1].symbol = <<"X", "Y">>
    /\ symbol_var = <<" ", "X", "Y", " ">>

(***************************************************************************)
(* The two endpoints of the web front end, each request handled in one     *)
(* step: /analyze/ (WebAnalyze above) and /export/.                        *)
(***************************************************************************)

\* lines 38-40 run to the end: the name and the counter the loop leaves with
RECURSIVE probe_loop(_, _)
probe_loop(name, n) ==
    IF path_exists(name) THEN probe_loop(SuffixedName(n), n + 1)
    ELSE [filename |-> name, counter |-> n]

\* lines 31-45 in one piece: the directory after the call, what the call
\* returns or raises, and how the write ended ("none": not attempted)
get_all_stock(answer, outcome) ==
    LET out == get_all_stock_symbols(answer)
    IN IF out.raised # None
       THEN [files |-> files, ret |-> None, err |-> out.raised, disk |-> "none"]
       ELSE LET name == probe_loop(base_filename, 1).filename
            IN [files |-> to_excel(files, name, out.value[1], outcome),
                ret |-> IF to_excel_raises(outcome) THEN None ELSE Some(name),
                err |-> IF to_excel_raises(outcome) THEN Some("IOError") ELSE None,
                disk |-> outcome]

\* a variant of the view that does not look at the request method
export_symbols_view_any_method(method, result) ==
    IF result.err = None
    THEN [success |-> TRUE, filename |-> result.ret[1]]
    ELSE [success |-> FALSE, error |-> result.err[1]]

\* lines 619-636: the JSON answer of export_symbols(request)
export_symbols_view(method, result) ==
    IF method = "POST"
    THEN IF result.err = None
         THEN [success |-> TRUE, filename |-> result.ret[1]]
         ELSE [success |-> FALSE, error |-> result.err[1]]
    ELSE [success |-> FALSE, error |-> "Invalid request method"]

ExportRequest(method) == [method |-> method, path |-> "/export/"]

\* answers of the network met by the exports of the web front end
WebExportAnswers == {HttpAnswer(404, LineABC), HttpAnswer(200, ExampleText)}

\* a request to /export/
WebExport ==
    /\ frontend = "web"
    /\ \E method \in {"GET", "POST"}, answer \in WebExportAnswers,
          outcome \in DiskOutcomes :
        LET result == get_all_stock(answer, outcome)
            answered == export_symbols_view(method, result)
        IN /\ web_request' = Some(ExportRequest(method))
           /\ web_response' = Some(answered)
           /\ IF answered = [success |-> FALSE, error |-> "Invalid request method"]
              THEN UNCHANGED <<network, files, before, disk, log, invoked, outbound>>
              ELSE /\ Len(invoked) < MaxCalls
                   /\ network' = answer
                   /\ before' = files
                   /\ files' = result.files
                   /\ disk' = result.disk
                   /\ log' = Append(log, [ret |-> result.ret, err |-> result.err])
                   /\ invoked' = Append(invoked, Invocation("get_all_stock", <<>>))
                   /\ outbound' = outbound \o get_all_stock_symbols_requests(answer)
    /\ UNCHANGED <<parseVars, dir0, pc, symbols, filename, counter>>
    /\ UNCHANGED <<frontend, provider, symbol_var, analyze_btn, workers, started,
                   after_queue, widgets, dialogs, page, stdout, market, fmt_value,
                   fmt_result>>

InitWebApi ==
    /\ network = TransportFailure
    /\ market = {Found(FullInfo), LookupError("HTTP Error 404")}
    /\ InitNoData
    /\ \E names \in SUBSET {base_filename} :
        /\ dir0 = [n \in names |-> OldExport]
        /\ files = dir0
    /\ disk = "none"
    /\ pc = [p \in Threads |-> "idle"]
    /\ symbols = [p \in Threads |-> <<>>]
    /\ filename = [p \in Threads |-> ""]
    /\ counter = [p \in Threads |-> 0]
    /\ before = dir0
    /\ log = <<>>
    /\ InitFront("web")

NextWebApi == WebAnalyze \/ WebExport

SpecWebApi == InitWebApi /\ [][NextWebApi]_vars

\* a step in which an endpoint answers a request
EndpointAnswers ==
    web_response' # web_response \/ web_request' # web_request \/ invoked' # invoked

ToExport == "path" \in DOMAIN web_request'[1]

CoreCalled == Len(invoked') > Len(invoked)

\* the answer is an object with 'success' and, with it, 'error' alone, or
\* 'info' and 'symbol', or 'filename'
IsEnvelope(r) ==
    /\ "success" \in DOMAIN r
    /\ IF r.success
       THEN DOMAIN r \in {{"success", "info", "symbol"}, {"success", "filename"}}
       ELSE DOMAIN r = {"success", "error"}

EndpointAnswer ==
    EndpointAnswers =>
        LET request == web_request'[1]
            r == web_response'[1]
        IN /\ web_response' # None
           /\ IsEnvelope(r)
           /\ request.method # "POST" =>
                  /\ r = [success |-> FALSE, error |-> "Invalid request method"]
                  /\ ~CoreCalled
                  /\ files' = files
                  /\ outbound' = outbound
           /\ (CoreCalled /\ ToExport) =>
                  LET done == log'[Len(log')]
                  IN /\ Len(log') = Len(log) + 1
                     /\ IF done.err # None
                        THEN r = [success |-> FALSE, error |-> done.err[1]]
                        ELSE /\ r = [success |-> TRUE, filename |-> done.ret[1]]
                             /\ r.filename \in DOMAIN files'
                             /\ files'[r.filename].columns = <<"Symbol">>
           /\ (CoreCalled /\ ~ToExport) =>
                  IF provider'[1].ok
                  THEN r = [success |-> TRUE, info |-> provider'[1].info[1],
                            symbol |-> invoked'[Len(invoked')].symbol]
                  ELSE r = [success |-> FALSE, error |-> provider'[1].msg]
           /\ r.success => CoreCalled

\* C26: /analyze/ and /export/ always answer with a JSON envelope: a request
\* that is not a POST gets success=false with 'Invalid request method' and
\* no core operation is invoked; an error raised by the core operation gives
\* success=false with the error text; success=true is answered only when
\* the core operation completed, with 'info' and 'symbol' (analyze) or
\* 'filename' (export).
C26_JsonEnvelope == [][EndpointAnswer]_vars

C26_Witness ==
    /\ frontend = "web"
    /\ web_request = Some([method |-> "POST", path |-> "/export/"])
    /\ web_response = Some([success |-> FALSE, error |-> "IOError"])
    /\ Len(log) = 3
    /\ log[1].ret = Some("tsx_symbols.xlsx")
    /\ log[2].err = Some("HTTPError")

(***************************************************************************)
(* Claims about the content of the export file (Spec).                     *)
(***************************************************************************)

\* what the fetch of the last call returned
FetchedInLastCall == get_all_stock_symbols(network).value[1]

\* C27: the file written by a call that returns has exactly one column,
\* headed 'Symbol', and its rows are the sequence the fetch of that call
\* returned, in the same order and with the same multiplicity; an empty
\* sequence still gives a file (header only) and its filename is returned.
C27_FileHoldsFetchedSymbols ==
    (CallCompleted /\ LastOutcome.ret # None) =>
        /\ LastOutcome.ret[1] \in DOMAIN files
        /\ files[LastOutcome.ret[1]].columns = <<"Symbol">>
        /\ files[LastOutcome.ret[1]].rows = FetchedInLastCall
        /\ \A n \in DOMAIN files \ {LastOutcome.ret[1]} : files[n] = before[n]

C27_Witness ==
    /\ CallCompleted
    /\ Len(log) = 2
    /\ log[1].ret = Some("tsx_symbols.xlsx")
    /\ files["tsx_symbols.xlsx"].rows =
           << <<"X", "Y", ".", "T", "O">>, <<"A", "B", "C">>, <<"X", "Y", ".", "T", "O">> >>
    /\ network = HttpAnswer(200, <<>>)
    /\ log[2].ret = Some("tsx_symbols_1.xlsx")
    /\ files["tsx_symbols_1.xlsx"] = [columns |-> <<"Symbol">>, rows |-> <<>>]

(***************************************************************************)
(* Claims about overlapping analyses of the desktop window (SpecLive: the  *)
(* entry is set by the buttons only, so it holds the symbol requested      *)
(* last).                                                                   *)
(***************************************************************************)

\* the entry changes only when a quick access button starts an analysis, and
\* an analysis is started for the symbol in the entry
EntryIsLastRequest ==
    /\ symbol_var' # symbol_var => StartsAnalysis
    /\ StartsAnalysis => workers'[Len(workers')].symbol = symbol_var'

\* a callback that updates the display shows its own symbol, whichever
\* symbol the display showed and whichever symbol the entry holds
LastCallbackWins ==
    (/\ HandlesOne
     /\ Head(after_queue).fn = "_update_display"
     /\ Len(dialogs') = Len(dialogs)) =>
        /\ widgets'.company_text # None
        /\ widgets'.company_text[1].symbol = Head(after_queue).symbol[1]
        /\ symbol_var' = symbol_var

\* callbacks run in the order in which the fetches ended, not in the order
\* in which the analyses were started
CallbacksInFetchOrder ==
    WorkerStep =>
        \E i \in DOMAIN workers :
            /\ workers' = RemoveAt(workers, i)
            /\ after_queue'[Len(after_queue')].fn = "_update_display" =>
                   after_queue'[Len(after_queue')].symbol = Some(workers[i].symbol)

\* C28: when two analyses overlap, the display ends up showing the record of
\* the callback that runs last, which can be that of the symbol requested
\* first: the symbol displayed need not be the one requested last, which
\* the entry shows.
C28_LastCallbackWins ==
    [][EntryIsLastRequest /\ LastCallbackWins /\ CallbacksInFetchOrder]_vars

C28_Witness ==
    /\ started = 2
    /\ workers = <<>>
    /\ after_queue = <<>>
    /\ dialogs = <<>>
    /\ symbol_var = CCO
    /\ widgets.company_text # None
    /\ widgets.company_text[1].symbol = CEU

\* the button is enabled although an analysis is in flight
EnabledInFlight == analyze_btn = "normal" /\ InFlight >= 1

\* that state arises only from analyses that overlapped, one of them handled
EnabledInFlightOnlyByOverlap == EnabledInFlight => (started >= 2 /\ Handled >= 1)

\* a callback enables the button however many analyses remain in flight
CallbackIgnoresInFlight ==
    (HandlesOne /\ (workers # <<>> \/ Len(after_queue) > 1)) =>
        (analyze_btn' = "normal" /\ workers' = workers)

\* C29: the state of the analyze button is not tied to the number of
\* analyses in flight: when two analyses overlap, the completion of the
\* first enables the button while the second worker is still fetching.
C29_ButtonNotTiedToInFlight ==
    []EnabledInFlightOnlyByOverlap /\ [][CallbackIgnoresInFlight]_vars

C29_Witness ==
    /\ analyze_btn = "normal"
    /\ Len(workers) = 1
    /\ after_queue = <<>>
    /\ started = 2
    /\ Handled = 1

(***************************************************************************)
(* One thread calling get_all_stock, and running: the loop of the probe    *)
(* takes its next step.                                                     *)
(***************************************************************************)
NextProbe == SequentialCall("t1") \/ Probe("t1") \/ Write("t1")

SpecProbe == Init /\ [][NextProbe]_vars /\ WF_vars(Probe("t1"))

\* the k-th name the claim has the probe test
TestedName(k) == IF k = 1 THEN "tsx_symbols.xlsx" ELSE NumberedNames[k - 1]

\* the export names present without a gap, counted from the base name
ConsecutiveExisting ==
    CHOOSE n \in 0..Len(NumberedNames) :
        /\ \A k \in 1..n : TestedName(k) \in DOMAIN files
        /\ TestedName(n + 1) \notin DOMAIN files

\* while the loop runs, its k-th test (k = counter) is of the k-th name, and
\* all names before it have been found to exist
ProbeInOrder ==
    pc["t1"] = "probe" =>
        /\ filename["t1"] = TestedName(counter["t1"])
        /\ counter["t1"] <= ConsecutiveExisting + 1

\* each test is followed by the next name if the name exists, and ends the
\* loop if it does not; nothing is created meanwhile
OneTestPerStep ==
    (pc["t1"] = "probe" /\ pc'["t1"] # "idle") =>
        /\ files' = files
        /\ IF filename["t1"] \in DOMAIN files
           THEN /\ pc'["t1"] = "probe"
                /\ counter'["t1"] = counter["t1"] + 1
           ELSE /\ pc'["t1"] = "write"
                /\ counter'["t1"] = counter["t1"]
                /\ filename'["t1"] = filename["t1"]

\* the loop is left at the first name that does not exist, after as many
\* tests as there are consecutive existing names, and one
ProbeStopsAtFirstFree ==
    pc["t1"] = "write" =>
        /\ filename["t1"] = TestedName(ConsecutiveExisting + 1)
        /\ counter["t1"] = ConsecutiveExisting + 1

ProbeTerminates == (pc["t1"] = "probe") ~> (pc["t1"] = "write")

\* C30: with no other process creating files, the probe terminates for every
\* finite set of existing files: it tests tsx_symbols.xlsx, then
\* tsx_symbols_1.xlsx, tsx_symbols_2.xlsx, ... with n increasing by one, and
\* stops at the first name that does not exist, after (number of
\* consecutive existing names from the base name on) + 1 tests.
C30_ProbeTerminates ==
    /\ [](ProbeInOrder /\ ProbeStopsAtFirstFree)
    /\ [][OneTestPerStep]_vars
    /\ ProbeTerminates

C30_Witness ==
    /\ pc["t1"] = "write"
    /\ DOMAIN files =
           {"tsx_symbols.xlsx", "tsx_symbols_1.xlsx", "tsx_symbols_2.xlsx",
            "tsx_symbols_01.xlsx"}
    /\ counter["t1"] = 4
    /\ filename["t1"] = "tsx_symbols_3.xlsx"

====
